---- MODULE Spec2Model ----
(***************************************************************************)
(* Document-processing pipeline of azure_ai_service: the Splitter           *)
(* (app/doc_intel/utils/pdf_utils.py), the analysis job poller              *)
(* (app/doc_intel/preprocessing/doc_intel.py: Submitter, Listener) and the  *)
(* result extractor (src/doc2rag/page_split.py).                            *)
(*                                                                         *)
(* Each component is a batch stage of its own; the module holds one        *)
(* specification per stage (SpecSplit, SpecSubmit, SpecListen,             *)
(* SpecExtract).  A stage's actions leave the other stages' variables      *)
(* unchanged, and a stage's Init parks them at a fixed idle value.         *)
(***************************************************************************)
EXTENDS Integers, Sequences, FiniteSets, TLC

\* ------------------------------------------------------------------------
\* Bounds of the model
\* ------------------------------------------------------------------------
MaxPages == 12
MaxBudget == 5
MinBudget == 0 - 1
MaxBatch == 6
MaxJobs == 3
MaxCheckPeriod == 2
MaxWaitTime == 2
MaxDocPages == 3
MaxRequeues == 1
MaxBundlePages == 10
MaxFilePages == 4
MaxFileBudget == 3
MaxFigures == 3
MaxFigurePasses == 3
MaxApiPages == 2
MaxRepeatPages == 4
MaxCalls == 2
MaxRunUnits == 3
MaxChunks == 4
MaxBatchSize == 3
MaxRetryAttempts == 2
MaxChunkUnits == 2
MaxUnitChunks == 2

\* ------------------------------------------------------------------------
\* State
\* ------------------------------------------------------------------------
VARIABLES
    \* --- Splitter: one call of get_split_pdfs(done_dir, split_dir, file, n)
    file_n_pages,        \* file.n_pages
    n_pages_per_split,   \* the page budget handed to get_split_pdfs
    split_pc,            \* "call" | "returned" | "ValueError" | "ValidationError"
    split_pdfs           \* the list get_split_pdfs returned (<<>> before / on raise)

VARIABLES
    \* --- Submitter: one call of submit_jobs(session, split_files, pollers)
    split_files,         \* the batch: the units fetched in wait-for-di, in order
    file_exists,         \* unit -> whether <split_dir>/<split_id>.pdf exists
    submit_status,       \* unit -> SplitFile.status as committed
    submit_pollers,      \* the registry `pollers` handed to submit_jobs
    submit_idx,          \* position of the for loop in split_files (1-based)
    submit_pc            \* "loop" | "returned" | "UnboundLocalError"

splitVars == <<file_n_pages, n_pages_per_split, split_pc, split_pdfs>>
submitVars == <<split_files, file_exists, submit_status, submit_pollers,
                submit_idx, submit_pc>>

VARIABLES
    \* --- Listener: one call of listen_jobs(session, pollers)
    check_period,        \* Listener.check_period (seconds between sweeps)
    max_wait_time,       \* Listener.max_wait_time
    pollers,             \* the registry: a list of PollerDict
    sweep,               \* what is left of the snapshot pollers[:] of this sweep
    listen_pc,           \* "while" | "for" | "sleep" | "returned"
    job_state,           \* unit -> the remote job: "running" | "succeeded" | "failed"
    sf_status,           \* unit -> SplitFile.status
    di_request,          \* unit -> DIRequest: [status, finish_at]
    pkl,                 \* unit -> the <split_id>.pkl file: "absent" | "complete" | "truncated"
    n_polls,             \* unit -> how many times poller.done() was asked (history)
    n_updates            \* unit -> how many times _update_status ran (history)

listenVars == <<check_period, max_wait_time, pollers, sweep, listen_pc,
                job_state, sf_status, di_request, pkl, n_polls, n_updates>>

VARIABLES
    \* --- Extractor: SplitFilesProcessor.run() over the units of one document
    db_split_files,      \* SplitFile rows of the document: [split_id,
                         \*   start_page_number, n_pages, status], in id order
    analysis,            \* unit -> the raw result <split_id>.pkl: [pkl,
                         \*   n_segments, tables, figures]
    keys_unique,         \* whether the schema keeps the page / table / figure
                         \*   keys unique (db_utils/models.py)
    db_pages,            \* Page rows, in insertion order (row id = position)
    db_tables,           \* Table rows
    db_figures,          \* Figure rows
    raw_md_files,        \* page numbers that have a <page_number>.md file
    table_files,         \* <<page_number, table_id_in_page>> with a .md file
    figure_files,        \* <<page_number, figure_id_in_page>> with a .png file
    extract_queue,       \* what is left of the list run() fetched
    extract_pc,          \* "idle" | "call" | "loop" | "returned"
    extract_error,       \* unit -> the exception its last extraction logged
    n_extractions,       \* unit -> how many times it was extracted (history)
    n_requeues           \* how many units were reset for a retry (history)

extractVars == <<db_split_files, analysis, keys_unique, db_pages, db_tables,
                 db_figures, raw_md_files, table_files, figure_files,
                 extract_queue, extract_pc, extract_error, n_extractions,
                 n_requeues>>

VARIABLES
    \* --- Bundler: one call of merge_bundle(file_dir_name), and the chunker's
    \*     read of one unit's pages (_get_chunks)
    bundle_md_files,     \* page numbers n that have a bundle file "<n>.md"
    merge_pc,            \* "idle" | "call" | "returned" | "None" | "FileNotFoundError"
    merged_content,      \* what merge_bundle returned: the pages, in body order
    bundle_saved,        \* whether <file_dir_name>.md was written
    chunk_pc,            \* "idle" | "call" | "returned"
    full_text            \* what _get_full_text returned: the pages, in body order

bundleVars == <<bundle_md_files, merge_pc, merged_content, bundle_saved,
                chunk_pc, full_text>>

VARIABLES
    \* --- File passes: FileSplitter.process_files on one File row, and the
    \*     scan-for-delete, upload and delete passes over the same row
    f_status,            \* File.status
    in_done_dir,         \* whether the source pdf is still in the done dir
    fs_pc,               \* "idle" | "call" | "fetch" | "loop" | "returned"
    fs_split_pdfs,       \* split_pdfs: what get_split_pdfs returned
    fs_next,             \* position of the for loop in split_pdfs
    fs_split_files,      \* split_files: the entries appended so far
    file_split_files,    \* the SplitFile rows of the File in the store
    fs_failed_units,     \* split_ids whose _extract_and_validate was False
    fs_logged,           \* what the except handler logged last, or "none"
    f_chunks,            \* the status of the File's Chunk rows, "none" for
                         \*   no row, "some-deleted" for rows deleted and
                         \*   rows still in wait-for-delete
    f_folder             \* whether the File's folder of artifacts exists

fileVars == <<f_status, in_done_dir, fs_pc, fs_split_pdfs, fs_next,
              fs_split_files, file_split_files, fs_failed_units, fs_logged,
              f_chunks, f_folder>>

VARIABLES
    \* --- Figure enrichment: FigureDescriptionGenerator.generate over the
    \*     Figure rows
    fig_description,     \* Figure.description of each Figure: "None", ...
    fig_queue,           \* figures: the Figures fetched, not yet processed
    fig_pc,              \* "idle" | "call" | "loop" | "returned" | "UnboundLocalError"
    fig_path_bound,      \* whether figure_path was assigned in this call
    fig_failed,          \* Figures whose enrichment raised (history)
    n_fig_passes         \* calls of generate() so far

figureVars == <<fig_description, fig_queue, fig_pc, fig_path_bound,
                fig_failed, n_fig_passes>>

VARIABLES
    \* --- API: one POST /ai_service request (auto_ai_service, handle_action)
    api_ext,             \* file_ext: "." + the last dot-part of the file name
    api_action,          \* the form field action: "None" when absent
    api_file,            \* "ok" | "too-large" | "read-error"
    api_account_id,      \* the form field account_id ("" or a name)
    api_files,           \* the pages of the Document that have a bundle file
    api_pc,              \* "idle" | "call" | "validated" | "handled" |
                         \* "responded" | "AttributeError" | "HTTPException"
    api_merged_bundle,   \* what handle_action got from the pipeline
    api_handle,          \* handle_action: "none" | "returned" | "RuntimeError"
    api_response,        \* the response model returned, or NoResponse
    api_pipeline_ran,    \* whether run_ai_service_pipeline was called
    api_db_touched       \* whether the database block was entered

apiVars == <<api_ext, api_action, api_file, api_account_id, api_files, api_pc,
             api_merged_bundle, api_handle, api_response, api_pipeline_ran,
             api_db_touched>>

VARIABLES
    \* --- Repeated reads: merge_bundle and _get_full_text called again on
    \*     the same bundle files and Page rows
    rep_pages,           \* the page numbers of the unit's Page rows
    rep_files,           \* the pages of them that have a bundle file
    rep_merged,          \* what each call of merge_bundle returned, in order
    rep_texts            \* what each call of _get_full_text returned, in order

repeatVars == <<rep_pages, rep_files, rep_merged, rep_texts>>

VARIABLES
    \* --- DIProcessor: one call of run()
    run_status,          \* unit -> SplitFile.status in the store
    run_end_flag,        \* self.end_flag
    run_pc               \* "idle" | "call" | "while" | "if" | "returned" | "NameError"

runVars == <<run_status, run_end_flag, run_pc>>

VARIABLES
    \* --- Index passes: IndexUploadAgent.upload_chunks and
    \*     IndexDeleteAgent.delete_chunks over the chunks of one File
    ix_mode,             \* "upload" | "delete": which agent runs
    ix_items,            \* the chunks fetched for the File, in order
    ix_batch_size,       \* self.batch_size
    ix_retry_attempts,   \* self.retry_attempts
    ix_batches,          \* what batch_items yields, in order
    ix_batch,            \* batch_count of the batch at hand (1-based)
    ix_attempt,          \* attempt of the retry loop
    ix_posts,            \* batch -> how many times its payload was posted (history)
    ix_posted_ok,        \* batch -> whether a post of it succeeded (history)
    ix_late_posts,       \* batch -> posts made after a post of it succeeded (history)
    ix_chunk_status,     \* chunk -> Chunk.status
    ix_file_status,      \* File.status
    ix_pc                \* "idle" | "call" | "batch" | "attempt" | "returned"

indexVars == <<ix_mode, ix_items, ix_batch_size, ix_retry_attempts, ix_batches,
               ix_batch, ix_attempt, ix_posts, ix_posted_ok, ix_late_posts,
               ix_chunk_status, ix_file_status, ix_pc>>

VARIABLES
    \* --- Chunker: ChunkGenerator.generate over the SplitFile rows
    ck_status,           \* unit -> SplitFile.status
    ck_text_chunks,      \* unit -> how many chunks split_text yields for its text
    ck_stored,           \* unit -> the committed Chunk rows of the unit
    ck_pending,          \* Chunk rows inserted in the open transaction
    ck_batch,            \* splitfiles: what the fetch returned, in order
    ck_next,             \* position of the for loop in splitfiles
    ck_requeues,         \* how many times a unit was re-queued (history)
    ck_pc                \* "idle" | "call" | "loop" | "saved" | "except" | "returned"

chunkVars == <<ck_status, ck_text_chunks, ck_stored, ck_pending, ck_batch,
               ck_next, ck_requeues, ck_pc>>

vars ==
    <<splitVars,
      submitVars,
      listenVars,
      extractVars,
      bundleVars,
      fileVars,
      figureVars,
      apiVars,
      repeatVars,
      runVars,
      indexVars,
      chunkVars>>

\* What each stage leaves alone.
notSplitVars ==
    <<submitVars,
      listenVars,
      extractVars,
      bundleVars,
      fileVars,
      figureVars,
      apiVars,
      repeatVars,
      runVars,
      indexVars,
      chunkVars>>
notSubmitVars ==
    <<splitVars,
      listenVars,
      extractVars,
      bundleVars,
      fileVars,
      figureVars,
      apiVars,
      repeatVars,
      runVars,
      indexVars,
      chunkVars>>
notListenVars ==
    <<splitVars,
      submitVars,
      extractVars,
      bundleVars,
      fileVars,
      figureVars,
      apiVars,
      repeatVars,
      runVars,
      indexVars,
      chunkVars>>
notExtractVars ==
    <<splitVars,
      submitVars,
      listenVars,
      bundleVars,
      fileVars,
      figureVars,
      apiVars,
      repeatVars,
      runVars,
      indexVars,
      chunkVars>>
notBundleVars ==
    <<splitVars,
      submitVars,
      listenVars,
      extractVars,
      fileVars,
      figureVars,
      apiVars,
      repeatVars,
      runVars,
      indexVars,
      chunkVars>>
notFileVars ==
    <<splitVars,
      submitVars,
      listenVars,
      extractVars,
      bundleVars,
      figureVars,
      apiVars,
      repeatVars,
      runVars,
      indexVars,
      chunkVars>>
notFigureVars ==
    <<splitVars,
      submitVars,
      listenVars,
      extractVars,
      bundleVars,
      fileVars,
      apiVars,
      repeatVars,
      runVars,
      indexVars,
      chunkVars>>
notApiVars ==
    <<splitVars,
      submitVars,
      listenVars,
      extractVars,
      bundleVars,
      fileVars,
      figureVars,
      repeatVars,
      runVars,
      indexVars,
      chunkVars>>
notRepeatVars ==
    <<splitVars,
      submitVars,
      listenVars,
      extractVars,
      bundleVars,
      fileVars,
      figureVars,
      apiVars,
      runVars,
      indexVars,
      chunkVars>>
notRunVars ==
    <<splitVars,
      submitVars,
      listenVars,
      extractVars,
      bundleVars,
      fileVars,
      figureVars,
      apiVars,
      repeatVars,
      indexVars,
      chunkVars>>
notIndexVars ==
    <<splitVars,
      submitVars,
      listenVars,
      extractVars,
      bundleVars,
      fileVars,
      figureVars,
      apiVars,
      repeatVars,
      runVars,
      chunkVars>>
notChunkVars ==
    <<splitVars,
      submitVars,
      listenVars,
      extractVars,
      bundleVars,
      fileVars,
      figureVars,
      apiVars,
      repeatVars,
      runVars,
      indexVars>>

\* ------------------------------------------------------------------------
\* Helpers
\* ------------------------------------------------------------------------
\* A min that keeps its first argument: the end page is not clamped.
MinLeft(a, b) == a

\* min(a, b)
Min(a, b) == IF a <= b THEN a ELSE b

\* ceil(p / b) for p >= 0, b > 0, written without reference to the code's divmod
CeilDiv(p, b) == CHOOSE k \in 0..p : k * b >= p /\ (k = 0 \/ (k - 1) * b < p)

\* ------------------------------------------------------------------------
\* Splitter: pdf_utils.py
\* ------------------------------------------------------------------------

\* class SplitPDF(BaseModel): the declared fields.  None has a default, so
\* pydantic requires every one of them in the constructor call.
SplitPDFFields ==
    {"pdf_bytes", "start_page_id", "end_page_id", "target_path",
     "n_pages_in_source", "n_pages_in_target", "split_id", "status"}

\* The fields typed PositiveInt: the value must be an integer > 0.
SplitPDFPositive ==
    {"start_page_id", "end_page_id", "n_pages_in_source", "n_pages_in_target"}

\* SplitPDF(**kw): pydantic's validation of the keyword arguments.  A keyword
\* that is no declared field is ignored; a declared field that is not given,
\* or a PositiveInt that is not > 0, raises ValidationError.
SplitPDFNew(kw) ==
    IF /\ SplitPDFFields \subseteq DOMAIN kw
       /\ \A f \in SplitPDFPositive : kw[f] > 0
    THEN [ok |-> TRUE, val |-> [f \in SplitPDFFields |-> kw[f]]]
    ELSE [ok |-> FALSE, val |-> "ValidationError"]

\* n_splits, remainder = divmod(n_pages, n_pages_per_split); n_splits += 1
\* when remainder > 0.
NSplits(p, b) ==
    LET q == p \div b
        r == p % b
    IN  IF r > 0 THEN q + 1 ELSE q

\* The keyword arguments get_split_pdfs builds for split_id (0-based) in its
\* loop body: page range, page count, target name and status.  The call names
\* source_path, and names no pdf_bytes.
SplitKwargs(split_id, p, b) ==
    LET start_page == split_id * b + 1
        end_page == Min((split_id + 1) * b, p)
    IN  [source_path |-> "pdf_file",
         start_page_id |-> start_page,
         end_page_id |-> end_page,
         target_path |-> split_id,
         n_pages_in_source |-> p,
         n_pages_in_target |-> end_page - start_page + 1,
         split_id |-> split_id,
         status |-> "wait-for-di"]

\* The loop `for split_id in range(n_splits)`: the SplitPDF objects built so
\* far, or the first constructor error, which ends the call.
RECURSIVE BuildSplits(_, _, _, _)
BuildSplits(split_id, n_splits, p, b) ==
    IF split_id >= n_splits THEN [ok |-> TRUE, val |-> <<>>]
    ELSE LET made == SplitPDFNew(SplitKwargs(split_id, p, b))
         IN  IF ~made.ok THEN [ok |-> FALSE, val |-> made.val]
             ELSE LET rest == BuildSplits(split_id + 1, n_splits, p, b)
                  IN  IF ~rest.ok THEN rest
                      ELSE [ok |-> TRUE, val |-> <<made.val>> \o rest.val]

\* get_split_pdfs: the configuration check.
GetSplitPdfsInvalidBudget ==
    /\ split_pc = "call"
    /\ n_pages_per_split <= 0
    /\ split_pc' = "ValueError"
    /\ UNCHANGED <<file_n_pages, n_pages_per_split, split_pdfs>>
    /\ UNCHANGED notSplitVars

\* get_split_pdfs: a document of zero pages.
GetSplitPdfsNoPages ==
    /\ split_pc = "call"
    /\ n_pages_per_split > 0
    /\ file_n_pages = 0
    /\ split_pc' = "returned"
    /\ split_pdfs' = <<>>
    /\ UNCHANGED <<file_n_pages, n_pages_per_split>>
    /\ UNCHANGED notSplitVars

\* get_split_pdfs: the loop over the splits.
GetSplitPdfsLoop ==
    /\ split_pc = "call"
    /\ n_pages_per_split > 0
    /\ file_n_pages > 0
    /\ LET built == BuildSplits(0, NSplits(file_n_pages, n_pages_per_split),
                                file_n_pages, n_pages_per_split)
       IN  /\ split_pc' = IF built.ok THEN "returned" ELSE built.val
           /\ split_pdfs' = IF built.ok THEN built.val ELSE <<>>
    /\ UNCHANGED <<file_n_pages, n_pages_per_split>>
    /\ UNCHANGED notSplitVars

SplitInit ==
    /\ file_n_pages \in 0..MaxPages
    /\ n_pages_per_split \in MinBudget..MaxBudget
    /\ split_pc = "call"
    /\ split_pdfs = <<>>

SplitIdle ==
    /\ file_n_pages = 0
    /\ n_pages_per_split = 1
    /\ split_pc = "idle"
    /\ split_pdfs = <<>>

SplitNext ==
    \/ GetSplitPdfsInvalidBudget
    \/ GetSplitPdfsNoPages
    \/ GetSplitPdfsLoop

\* ------------------------------------------------------------------------
\* Submitter: doc_intel.py, class Submitter
\* ------------------------------------------------------------------------
BatchUnits == 1..MaxBatch

\* Submitter._update_split_file_status: split_file.status = status;
\* session.commit().
SubmitterUpdateStatus(st, u, status) == [st EXCEPT ![u] = status]

\* The except clause of _submit_single_job logs
\*   f"Failed to submit SplitFileID {split_file_name}: {e}".
\* split_file_name is a local of the function, assigned after
\* begin_analyze_document returned; reading it before that assignment raises
\* UnboundLocalError inside the handler, which leaves _submit_single_job and
\* submit_jobs.  `name_bound` says whether the assignment was reached.
SubmitHandlerOutcome(name_bound) ==
    IF name_bound THEN "loop" ELSE "UnboundLocalError"

\* _submit_single_job, the source file is missing:
\* _get_file_path_and_validate marks the unit failed and returns None, the
\* job returns and submit_jobs goes on with the next unit.
SubmitMissingFile ==
    /\ submit_pc = "loop"
    /\ submit_idx <= Len(split_files)
    /\ LET u == split_files[submit_idx]
       IN  /\ ~file_exists[u]
           /\ submit_status' = SubmitterUpdateStatus(submit_status, u, "failed")
    /\ submit_idx' = submit_idx + 1
    /\ UNCHANGED <<split_files, file_exists, submit_pollers, submit_pc>>
    /\ UNCHANGED notSubmitVars

\* _submit_single_job, the source file exists: the next statement,
\*   iobytes = self._convert_pdf_to_iobytes(pdf_bytes)
\* reads pdf_bytes, which is neither a parameter or local of the function nor
\* a name the module defines: NameError.  The except clause then runs with
\* split_file_name unassigned.  begin_analyze_document, _register_di_request,
\* pollers.append and the di-processing update that follow are never reached.
SubmitExistingFile ==
    /\ submit_pc = "loop"
    /\ submit_idx <= Len(split_files)
    /\ file_exists[split_files[submit_idx]]
    /\ submit_pc' = SubmitHandlerOutcome(FALSE)
    /\ UNCHANGED <<split_files, file_exists, submit_status, submit_pollers,
                   submit_idx>>
    /\ UNCHANGED notSubmitVars

\* submit_jobs: the for loop is exhausted.
SubmitJobsReturn ==
    /\ submit_pc = "loop"
    /\ submit_idx > Len(split_files)
    /\ submit_pc' = "returned"
    /\ UNCHANGED <<split_files, file_exists, submit_status, submit_pollers,
                   submit_idx>>
    /\ UNCHANGED notSubmitVars

SubmitInit ==
    /\ split_files = [i \in BatchUnits |-> i]
    /\ file_exists \in [BatchUnits -> BOOLEAN]
    /\ submit_status = [u \in BatchUnits |-> "wait-for-di"]
    /\ submit_pollers = <<>>
    /\ submit_idx = 1
    /\ submit_pc = "loop"

SubmitIdle ==
    /\ split_files = <<>>
    /\ file_exists = [u \in BatchUnits |-> FALSE]
    /\ submit_status = [u \in BatchUnits |-> "wait-for-di"]
    /\ submit_pollers = <<>>
    /\ submit_idx = 1
    /\ submit_pc = "idle"

SubmitNext ==
    \/ SubmitMissingFile
    \/ SubmitExistingFile
    \/ SubmitJobsReturn

\* ------------------------------------------------------------------------
\* Listener: doc_intel.py, class Listener
\* ------------------------------------------------------------------------
JobUnits == 1..MaxJobs

\* PollerDict(filename, poller, waiting_time, split_file, di_request): the
\* registry entry of one unit, as Submitter builds it (waiting_time = 0).
PollerDict(u, w) == [unit |-> u, waiting_time |-> w]

\* Whether unit u has an entry in the registry.
InRegistry(ps, u) == \E i \in 1..Len(ps) : ps[i].unit = u

\* A copy of the registry that misses its last entry.
SnapshotWithoutLast(ps) == [i \in 1..(Len(ps) - 1) |-> ps[i].unit]

\* pollers[:], as the units of its entries in list order.
Snapshot(ps) == [i \in 1..Len(ps) |-> ps[i].unit]

\* A removal that was forgotten: the registry is left as it is.
RemovePollerForgotten(ps, u) == ps

\* A waiting time that is not accumulated.
AddWaitingTimeLost(w, period) == w

\* pollers.remove(poller_dict): the list without the entry of unit u.
RECURSIVE RemovePoller(_, _)
RemovePoller(ps, u) ==
    IF ps = <<>> THEN <<>>
    ELSE IF Head(ps).unit = u THEN Tail(ps)
    ELSE <<Head(ps)>> \o RemovePoller(Tail(ps), u)

\* The entry of unit u in the registry.
PollerOf(ps, u) == ps[CHOOSE i \in 1..Len(ps) : ps[i].unit = u]

\* poller_dict.waiting_time += self.check_period
AddWaitingTime(w, period) == w + period

\* A timeout test that also fires at the limit.
OverMaxWaitTimeOrEqual(w, max) == w >= max

\* if poller_dict.waiting_time > self.max_wait_time
OverMaxWaitTime(w, max) == w > max

\* The registry with u's waiting_time replaced.
SetWaitingTime(ps, u, w) ==
    [i \in 1..Len(ps) |->
        IF ps[i].unit = u THEN PollerDict(u, w) ELSE ps[i]]

\* poller.status().lower() == "succeeded" picks the unit status and the
\* request status that _handle_completed_poll hands to _update_status.
\* _update_status when the status is written to every unit of the batch.
ListenerUpdateStatusOfBatch(st, u, status) ==
    [v \in DOMAIN st |-> IF st[v] = "wait-for-di" THEN st[v] ELSE status]

\* _update_status when the unit's status is not written.
ListenerUpdateStatusSkipped(st, u, status) == st

\* _update_status: split_file.status = sf_status, for the polled unit, and
\* session.commit().
ListenerUpdateStatus(st, u, status) == [st EXCEPT ![u] = status]

CompletedSfStatus(remote) ==
    IF remote = "succeeded" THEN "di-success" ELSE "di-failed"

CompletedDiStatus(remote) ==
    IF remote = "succeeded" THEN "success" ELSE "failed"

\* _save_result_to_file: poller.result(), open(file_path, "wb"),
\* pickle.dump.  An exception of any of the three is logged and swallowed.
\* outcome "saved": the file is written; "no-file": result() or open()
\* raised, the file is as it was; "truncated": pickle.dump raised after
\* open() created the file.
SaveOutcomes == {"saved", "no-file", "truncated"}

SaveResultToFile(old, outcome) ==
    CASE outcome = "saved" -> "complete"
      [] outcome = "no-file" -> old
      [] outcome = "truncated" -> "truncated"

\* listen_jobs: `while pollers:` with an empty registry ends the call.
ListenReturn ==
    /\ listen_pc = "while"
    /\ pollers = <<>>
    /\ listen_pc' = "returned"
    /\ UNCHANGED <<check_period, max_wait_time, pollers, sweep, job_state,
                   sf_status, di_request, pkl, n_polls, n_updates>>
    /\ UNCHANGED notListenVars

\* listen_jobs: `while pollers:` with jobs left starts a sweep over the
\* snapshot pollers[:].
ListenStartSweep ==
    /\ listen_pc = "while"
    /\ pollers # <<>>
    /\ sweep' = Snapshot(pollers)
    /\ listen_pc' = "for"
    /\ UNCHANGED <<check_period, max_wait_time, pollers, job_state,
                   sf_status, di_request, pkl, n_polls, n_updates>>
    /\ UNCHANGED notListenVars

\* _process_polling, poller.done() is true: _handle_completed_poll, then
\* pollers.remove(poller_dict).  A succeeded job has its result saved
\* (whatever the outcome of the save) and is marked di-success/success; any
\* other terminal status is marked di-failed/failed.
PollCompleted(outcome) ==
    /\ listen_pc = "for"
    /\ sweep # <<>>
    /\ LET u == Head(sweep)
       IN  /\ job_state[u] # "running"
           /\ (job_state[u] # "succeeded" => outcome = "saved")
           /\ pkl' = IF job_state[u] = "succeeded"
                     THEN [pkl EXCEPT ![u] = SaveResultToFile(pkl[u], outcome)]
                     ELSE pkl
           /\ sf_status' = ListenerUpdateStatus(sf_status, u,
                              CompletedSfStatus(job_state[u]))
           /\ di_request' = [di_request EXCEPT
                  ![u] = [status |-> CompletedDiStatus(job_state[u]),
                          finish_at |-> TRUE]]
           /\ n_updates' = [n_updates EXCEPT ![u] = @ + 1]
           /\ pollers' = RemovePoller(pollers, u)
           /\ n_polls' = [n_polls EXCEPT ![u] = @ + 1]
    /\ sweep' = Tail(sweep)
    /\ UNCHANGED <<check_period, max_wait_time, listen_pc, job_state>>
    /\ UNCHANGED notListenVars

\* _process_polling, poller.done() is false and the job has not waited too
\* long: its waiting_time grows by check_period.
PollWaiting ==
    /\ listen_pc = "for"
    /\ sweep # <<>>
    /\ LET u == Head(sweep)
           w == AddWaitingTime(PollerOf(pollers, u).waiting_time, check_period)
       IN  /\ job_state[u] = "running"
           /\ ~OverMaxWaitTime(w, max_wait_time)
           /\ pollers' = SetWaitingTime(pollers, u, w)
           /\ n_polls' = [n_polls EXCEPT ![u] = @ + 1]
    /\ sweep' = Tail(sweep)
    /\ UNCHANGED <<check_period, max_wait_time, listen_pc, job_state,
                   sf_status, di_request, pkl, n_updates>>
    /\ UNCHANGED notListenVars

\* _process_polling, poller.done() is false and the grown waiting_time
\* exceeds max_wait_time: pollers.remove(poller_dict), then
\* _update_status(di-failed, over-max-wait-time).
PollTimeout ==
    /\ listen_pc = "for"
    /\ sweep # <<>>
    /\ LET u == Head(sweep)
           w == AddWaitingTime(PollerOf(pollers, u).waiting_time, check_period)
       IN  /\ job_state[u] = "running"
           /\ OverMaxWaitTime(w, max_wait_time)
           /\ pollers' = RemovePoller(SetWaitingTime(pollers, u, w), u)
           /\ sf_status' = ListenerUpdateStatus(sf_status, u, "di-failed")
           /\ di_request' = [di_request EXCEPT
                  ![u] = [status |-> "over-max-wait-time", finish_at |-> TRUE]]
           /\ n_updates' = [n_updates EXCEPT ![u] = @ + 1]
           /\ n_polls' = [n_polls EXCEPT ![u] = @ + 1]
    /\ sweep' = Tail(sweep)
    /\ UNCHANGED <<check_period, max_wait_time, listen_pc, job_state, pkl>>
    /\ UNCHANGED notListenVars

\* listen_jobs: the for loop over the snapshot is exhausted; with jobs left
\* the listener sleeps check_period, otherwise it tests the registry again.
ListenEndSweep ==
    /\ listen_pc = "for"
    /\ sweep = <<>>
    /\ listen_pc' = IF pollers # <<>> THEN "sleep" ELSE "while"
    /\ UNCHANGED <<check_period, max_wait_time, pollers, sweep, job_state,
                   sf_status, di_request, pkl, n_polls, n_updates>>
    /\ UNCHANGED notListenVars

\* time.sleep(self.check_period) returns.
ListenWake ==
    /\ listen_pc = "sleep"
    /\ listen_pc' = "while"
    /\ UNCHANGED <<check_period, max_wait_time, pollers, sweep, job_state,
                   sf_status, di_request, pkl, n_polls, n_updates>>
    /\ UNCHANGED notListenVars

\* The analysis service: a submitted job that is still running reaches a
\* terminal status, at any time, whether or not the listener still waits for
\* it.
JobTerminates(u, status) ==
    /\ di_request[u].status # "none"
    /\ job_state[u] = "running"
    /\ job_state' = [job_state EXCEPT ![u] = status]
    /\ UNCHANGED <<check_period, max_wait_time, pollers, sweep, listen_pc,
                   sf_status, di_request, pkl, n_polls, n_updates>>
    /\ UNCHANGED notListenVars

\* The listener's own steps.
ListenerStep ==
    \/ ListenReturn
    \/ ListenStartSweep
    \/ \E outcome \in SaveOutcomes : PollCompleted(outcome)
    \/ PollWaiting
    \/ PollTimeout
    \/ ListenEndSweep
    \/ ListenWake

ListenNext ==
    \/ ListenerStep
    \/ \E u \in JobUnits, status \in {"succeeded", "failed"} :
          JobTerminates(u, status)

\* ------------------------------------------------------------------------
\* Extractor: src/doc2rag/page_split.py
\*
\* session.commit() of a status update is taken to succeed, as in Submitter
\* and Listener; the rollback branch of _update_split_file_status is then
\* not taken.  An insert fails when the schema rejects it.
\* ------------------------------------------------------------------------

\* FileSplitter._create_split_file_entry: the SplitFile row of one split.
SplitFileNew(split_pdf, status) ==
    [split_id |-> split_pdf.split_id,
     start_page_number |-> split_pdf.start_page_id,
     n_pages |-> split_pdf.n_pages_in_target,
     status |-> status]

\* The SplitFile rows of a document of p pages split with budget b, by the
\* page arithmetic of get_split_pdfs, once their analysis has succeeded.
SplitFilesOf(p, b) ==
    [k \in 1..NSplits(p, b) |->
        SplitFileNew(SplitKwargs(k - 1, p, b), "di-success")]

\* The number of segments the raw results of the model split into, for a
\* unit of n pages: content.split("<!-- PageBreak -->") has at least one.
SegmentChoices(n) == {s \in {n - 1, n, n + 1} : s >= 1}

\* The raw results a unit of n pages may have: no file, or a file whose
\* content has s segments, without tables and figures or with two tables on
\* its first segment and one figure (id "<s>.1") on its last one.
AnalysisChoices(n) ==
    {[pkl |-> FALSE, n_segments |-> n, tables |-> [i \in 1..n |-> 0],
      figures |-> <<>>]}
    \cup {[pkl |-> TRUE, n_segments |-> s, tables |-> [i \in 1..s |-> 0],
           figures |-> <<>>] : s \in SegmentChoices(n)}
    \cup {[pkl |-> TRUE, n_segments |-> n,
           tables |-> [i \in 1..n |-> IF i = 1 THEN 2 ELSE 0],
           figures |-> <<(<<n, 1>>)>>]}

\* get_page_number when the unit's start page is left out.
GetPageNumberRelative(split_file, page_id_in_split_file) ==
    page_id_in_split_file

\* get_page_number
GetPageNumber(split_file, page_id_in_split_file) ==
    split_file.start_page_number + page_id_in_split_file - 1

\* _extract_page_contents when the lengths are not compared.
PageCountUnchecked(n_segments, n_pages) == TRUE

\* _extract_page_contents: len(page_contents) != split_file.n_pages raises.
PageCountMatches(n_segments, n_pages) == n_segments = n_pages

\* _fetch_split_files_to_do_page_split: the units in di-success, in id order.
RECURSIVE FetchFrom(_, _)
FetchFrom(u, rows) ==
    IF u > Len(rows) THEN <<>>
    ELSE (IF rows[u].status = "di-success" THEN <<u>> ELSE <<>>)
         \o FetchFrom(u + 1, rows)

\* PageProcessor.run: the Page objects of a unit; `base` is the number of
\* Page rows already stored, so the new ids follow it.  `extraction` records
\* which extraction of the unit made the row (history).
NewPageRows(u, split_file, n_segments, base, ext) ==
    [i \in 1..n_segments |->
        [id |-> base + i,
         page_number |-> GetPageNumber(split_file, i),
         page_id_in_split_file |-> i,
         status |-> "raw-md-extracted",
         split_file_id |-> u,
         extraction |-> ext]]

\* PageProcessor.get_page_id_lst when every entry is the id of the first Page.
GetPageIdLstOfFirst(page_lst) == [i \in 1..Len(page_lst) |-> page_lst[1].id]

\* PageProcessor.get_page_id_lst
GetPageIdLst(page_lst) == [i \in 1..Len(page_lst) |-> page_lst[i].id]

\* TableProcessor.run: the Table objects of a unit, page by page.
RECURSIVE NewTableRows(_, _, _, _, _, _)
NewTableRows(i, u, split_file, tables, page_ids, ext) ==
    IF i > Len(tables) THEN <<>>
    ELSE [t \in 1..tables[i] |->
            [page_number |-> GetPageNumber(split_file, i),
             table_id_in_page |-> t,
             page_id |-> page_ids[i],
             split_file_id |-> u,
             extraction |-> ext]]
         \o NewTableRows(i + 1, u, split_file, tables, page_ids, ext)

\* FigureProcessor.run / _process_single_figure: the Figure objects.
NewFigureRows(u, split_file, figures, page_ids, ext) ==
    [f \in 1..Len(figures) |->
        [page_number |-> GetPageNumber(split_file, figures[f][1]),
         figure_id_in_page |-> figures[f][2],
         page_id |-> page_ids[figures[f][1]],
         split_file_id |-> u,
         extraction |-> ext]]

\* The key of a Page, Table or Figure row within the document.
PageKey(r) == <<r.page_number>>
SubKey(r) ==
    IF "table_id_in_page" \in DOMAIN r
    THEN <<r.page_number, r.table_id_in_page>>
    ELSE <<r.page_number, r.figure_id_in_page>>

\* save_to_db: session.add_all(objects) inserts every object as a new row.
\* The commit raises when the schema keeps the key unique and a stored row
\* has the key of a new one.
PageInsertRejected(rows, objects) ==
    /\ keys_unique
    /\ \E i \in 1..Len(rows), j \in 1..Len(objects) :
          PageKey(rows[i]) = PageKey(objects[j])

SubInsertRejected(rows, objects) ==
    /\ keys_unique
    /\ \E i \in 1..Len(rows), j \in 1..Len(objects) :
          SubKey(rows[i]) = SubKey(objects[j])

\* save_to_db on success: the rows after the insert.
SaveToDb(rows, objects) == rows \o objects

\* The files the first k objects of a list were saved to.
PageFilesOf(objects, k) == {objects[i].page_number : i \in 1..k}
SubFilesOf(objects, k) == {SubKey(objects[i]) : i \in 1..k}

\* A status update that is lost: the rows stay as they were.
UpdateSplitFileStatusLost(rows, u, status) == rows

\* SplitFilesProcessor._update_split_file_status
UpdateSplitFileStatus(rows, u, status) ==
    [rows EXCEPT ![u].status = status]

\* --- _process_single_file on the next unit of the fetched list -----------
ExUnit == Head(extract_queue)
ExFile == db_split_files[ExUnit]
ExResult == analysis[ExUnit]
ExRun == n_extractions[ExUnit] + 1

\* page_lst, table_lst and figure_lst as the three processors build them
ExPages ==
    NewPageRows(ExUnit, ExFile, ExResult.n_segments, Len(db_pages), ExRun)
ExTables ==
    NewTableRows(1, ExUnit, ExFile, ExResult.tables, GetPageIdLst(ExPages),
                 ExRun)
ExFigures ==
    NewFigureRows(ExUnit, ExFile, ExResult.figures, GetPageIdLst(ExPages),
                  ExRun)

\* PagesSplitter.__init__: is_tables_need_to_be_processed,
\* is_figures_need_to_be_processed
ExTablesNeeded == \E i \in 1..Len(ExResult.tables) : ExResult.tables[i] > 0
ExFiguresNeeded == Len(ExResult.figures) > 0

\* PagesSplitter.__init__ gets through: the result file exists and splits
\* into as many segments as the unit has pages.
ExLoaded ==
    /\ extract_pc = "loop"
    /\ extract_queue # <<>>
    /\ ExResult.pkl
    /\ PageCountMatches(ExResult.n_segments, ExFile.n_pages)

\* process_pages got through: the page files are written and the Page rows
\* inserted.
ExPagesSaved == ExLoaded /\ ~PageInsertRejected(db_pages, ExPages)

\* process_tables got through (or had nothing to do).
ExTablesSaved ==
    /\ ExPagesSaved
    /\ ExTablesNeeded => ~SubInsertRejected(db_tables, ExTables)

\* The end of _process_single_file: the status update, and the loop of run()
\* moves to the next unit.
ExFinish(status, error) ==
    /\ db_split_files' = UpdateSplitFileStatus(db_split_files, ExUnit, status)
    /\ extract_error' = [extract_error EXCEPT ![ExUnit] = error]
    /\ n_extractions' = [n_extractions EXCEPT ![ExUnit] = @ + 1]
    /\ extract_queue' = Tail(extract_queue)
    /\ UNCHANGED <<analysis, keys_unique, extract_pc, n_requeues>>
    /\ UNCHANGED notExtractVars

\* run(): nothing is in di-success.
ExtractRunNoFiles ==
    /\ extract_pc = "call"
    /\ FetchFrom(1, db_split_files) = <<>>
    /\ extract_pc' = "returned"
    /\ UNCHANGED <<db_split_files, analysis, keys_unique, db_pages, db_tables,
                   db_figures, raw_md_files, table_files, figure_files,
                   extract_queue, extract_error, n_extractions, n_requeues>>
    /\ UNCHANGED notExtractVars

\* run(): the units in di-success are fetched.
ExtractRunFetch ==
    /\ extract_pc = "call"
    /\ FetchFrom(1, db_split_files) # <<>>
    /\ extract_queue' = FetchFrom(1, db_split_files)
    /\ extract_pc' = "loop"
    /\ UNCHANGED <<db_split_files, analysis, keys_unique, db_pages, db_tables,
                   db_figures, raw_md_files, table_files, figure_files,
                   extract_error, n_extractions, n_requeues>>
    /\ UNCHANGED notExtractVars

\* _load_analysis_result raises PklNotExistsError.
ExtractPklMissing ==
    /\ extract_pc = "loop"
    /\ extract_queue # <<>>
    /\ ~ExResult.pkl
    /\ ExFinish("page-split-failed", "PklNotExistsError")
    /\ UNCHANGED <<db_pages, db_tables, db_figures, raw_md_files, table_files,
                   figure_files>>

\* _extract_page_contents raises PageNumberNotMatchError.
ExtractPageCountMismatch ==
    /\ extract_pc = "loop"
    /\ extract_queue # <<>>
    /\ ExResult.pkl
    /\ ~PageCountMatches(ExResult.n_segments, ExFile.n_pages)
    /\ ExFinish("page-split-failed", "PageNumberNotMatchError")
    /\ UNCHANGED <<db_pages, db_tables, db_figures, raw_md_files, table_files,
                   figure_files>>

\* PageProcessor.run: save_to_file raises IOError on the k-th page; the files
\* of the pages before it are written, no Page row is inserted.
ExtractPageFileError(k) ==
    /\ ExLoaded
    /\ k \in 1..Len(ExPages)
    /\ raw_md_files' = raw_md_files \cup PageFilesOf(ExPages, k - 1)
    /\ ExFinish("page-split-failed", "IOError")
    /\ UNCHANGED <<db_pages, db_tables, db_figures, table_files, figure_files>>

\* PageProcessor.run: every page file is written, save_to_db raises.
ExtractPagesRejected ==
    /\ ExLoaded
    /\ PageInsertRejected(db_pages, ExPages)
    /\ raw_md_files' = raw_md_files \cup PageFilesOf(ExPages, Len(ExPages))
    /\ ExFinish("page-split-failed", "IntegrityError")
    /\ UNCHANGED <<db_pages, db_tables, db_figures, table_files, figure_files>>

\* process_tables raises after the Page rows are committed: save_to_file
\* fails on the k-th table (the table files before it are written), or
\* save_to_db raises on the Table rows (every table file is written).
ExtractTablesFailed(k) ==
    /\ ExPagesSaved
    /\ ExTablesNeeded
    /\ \/ k \in 1..Len(ExTables)
       \/ k = Len(ExTables) + 1 /\ SubInsertRejected(db_tables, ExTables)
    /\ raw_md_files' = raw_md_files \cup PageFilesOf(ExPages, Len(ExPages))
    /\ db_pages' = SaveToDb(db_pages, ExPages)
    /\ table_files' = table_files \cup SubFilesOf(ExTables, k - 1)
    /\ ExFinish("page-split-failed",
                IF k <= Len(ExTables) THEN "IOError" ELSE "IntegrityError")
    /\ UNCHANGED <<db_tables, db_figures, figure_files>>

\* process_figures raises after the Page and Table rows are committed:
\* fitz.open or _save_figure fails on the k-th figure (the figure files
\* before it are written), or save_to_db raises on the Figure rows.
ExtractFiguresFailed(k) ==
    /\ ExTablesSaved
    /\ ExFiguresNeeded
    /\ \/ k \in 1..Len(ExFigures)
       \/ k = Len(ExFigures) + 1 /\ SubInsertRejected(db_figures, ExFigures)
    /\ raw_md_files' = raw_md_files \cup PageFilesOf(ExPages, Len(ExPages))
    /\ db_pages' = SaveToDb(db_pages, ExPages)
    /\ table_files' = table_files \cup SubFilesOf(ExTables, Len(ExTables))
    /\ db_tables' = SaveToDb(db_tables, ExTables)
    /\ figure_files' = figure_files \cup SubFilesOf(ExFigures, k - 1)
    /\ ExFinish("page-split-failed",
                IF k <= Len(ExFigures) THEN "IOError" ELSE "IntegrityError")
    /\ UNCHANGED db_figures

\* _process_single_file gets through: pages, tables and figures are saved
\* and the unit is marked page-split-success.
ExtractSuccess ==
    /\ ExTablesSaved
    /\ ExFiguresNeeded => ~SubInsertRejected(db_figures, ExFigures)
    /\ raw_md_files' = raw_md_files \cup PageFilesOf(ExPages, Len(ExPages))
    /\ db_pages' = SaveToDb(db_pages, ExPages)
    /\ table_files' = table_files \cup SubFilesOf(ExTables, Len(ExTables))
    /\ db_tables' = SaveToDb(db_tables, ExTables)
    /\ figure_files' = figure_files \cup SubFilesOf(ExFigures, Len(ExFigures))
    /\ db_figures' = SaveToDb(db_figures, ExFigures)
    /\ ExFinish("page-split-success", "none")

\* run(): the loop over the fetched units is over.
ExtractRunReturn ==
    /\ extract_pc = "loop"
    /\ extract_queue = <<>>
    /\ extract_pc' = "returned"
    /\ UNCHANGED <<db_split_files, analysis, keys_unique, db_pages, db_tables,
                   db_figures, raw_md_files, table_files, figure_files,
                   extract_queue, extract_error, n_extractions, n_requeues>>
    /\ UNCHANGED notExtractVars

\* The pipeline calls run() again.
ExtractRunAgain ==
    /\ extract_pc = "returned"
    /\ extract_pc' = "call"
    /\ UNCHANGED <<db_split_files, analysis, keys_unique, db_pages, db_tables,
                   db_figures, raw_md_files, table_files, figure_files,
                   extract_queue, extract_error, n_extractions, n_requeues>>
    /\ UNCHANGED notExtractVars

\* Between two runs a unit in page-split-failed is put back to di-success,
\* with its raw result as it is, so that the next run extracts it again.
RequeueFailedUnit(u) ==
    /\ extract_pc = "returned"
    /\ n_requeues < MaxRequeues
    /\ u \in 1..Len(db_split_files)
    /\ db_split_files[u].status = "page-split-failed"
    /\ db_split_files' = UpdateSplitFileStatus(db_split_files, u, "di-success")
    /\ n_requeues' = n_requeues + 1
    /\ UNCHANGED <<analysis, keys_unique, db_pages, db_tables, db_figures,
                   raw_md_files, table_files, figure_files, extract_queue,
                   extract_pc, extract_error, n_extractions>>
    /\ UNCHANGED notExtractVars

ExtractNext ==
    \/ ExtractRunNoFiles
    \/ ExtractRunFetch
    \/ ExtractPklMissing
    \/ ExtractPageCountMismatch
    \/ \E k \in 1..(MaxDocPages + 1) : ExtractPageFileError(k)
    \/ ExtractPagesRejected
    \/ \E k \in 1..(MaxDocPages + 1) : ExtractTablesFailed(k)
    \/ \E k \in 1..(MaxDocPages + 1) : ExtractFiguresFailed(k)
    \/ ExtractSuccess
    \/ ExtractRunReturn
    \/ ExtractRunAgain
    \/ \E u \in 1..MaxDocPages : RequeueFailedUnit(u)

\* The document is split and analysed; run() is about to be called.
ExtractInitial ==
    /\ file_n_pages \in 0..MaxDocPages
    /\ n_pages_per_split \in 1..MaxDocPages
    /\ split_pc = "idle"
    /\ split_pdfs = <<>>
    /\ db_split_files = SplitFilesOf(file_n_pages, n_pages_per_split)
    /\ analysis \in
         {a \in [1..Len(db_split_files) ->
                   UNION {AnalysisChoices(n) : n \in 1..MaxDocPages}] :
            \A u \in 1..Len(db_split_files) :
               a[u] \in AnalysisChoices(db_split_files[u].n_pages)}
    /\ keys_unique \in BOOLEAN
    /\ db_pages = <<>>
    /\ db_tables = <<>>
    /\ db_figures = <<>>
    /\ raw_md_files = {}
    /\ table_files = {}
    /\ figure_files = {}
    /\ extract_queue = <<>>
    /\ extract_pc = "call"
    /\ extract_error = [u \in 1..Len(db_split_files) |-> "none"]
    /\ n_extractions = [u \in 1..Len(db_split_files) |-> 0]
    /\ n_requeues = 0

ExtractIdle ==
    /\ db_split_files = <<>>
    /\ analysis = <<>>
    /\ keys_unique = FALSE
    /\ db_pages = <<>>
    /\ db_tables = <<>>
    /\ db_figures = <<>>
    /\ raw_md_files = {}
    /\ table_files = {}
    /\ figure_files = {}
    /\ extract_queue = <<>>
    /\ extract_pc = "idle"
    /\ extract_error = <<>>
    /\ n_extractions = <<>>
    /\ n_requeues = 0

\* ------------------------------------------------------------------------
\* Bundler: app/utils/file_process.py (merge_bundle) and the chunker's read
\* of the bundle files, src/doc2rag/chunking.py.  A page's bundle file is
\* "<page_number>.md" (get_file_path); its content is stood for by the page
\* number.  A file name is the sequence of its character codes.
\* ------------------------------------------------------------------------

\* str(n) for n >= 0: the decimal digits, as character codes ("0" is 48).
RECURSIVE Digits(_)
Digits(n) ==
    IF n < 10 THEN <<48 + n>>
    ELSE Digits(n \div 10) \o <<48 + (n % 10)>>

\* get_file_path(base_dir, page_number, extension=".md"): the file name
\* "_".join(map(str, components)) + extension, for the one component.
FileName(page_number) == Digits(page_number) \o <<46, 109, 100>>

\* Python's a < b on strings: the first differing character decides, a
\* proper prefix is smaller.
RECURSIVE LexLess(_, _)
LexLess(a, b) ==
    IF b = <<>> THEN FALSE
    ELSE IF a = <<>> THEN TRUE
    ELSE IF Head(a) # Head(b) THEN Head(a) < Head(b)
    ELSE LexLess(Tail(a), Tail(b))

\* sorted([f for f in os.listdir(dir) if f.endswith(".md")]): the files,
\* each named by its page, in ascending order of their names.
RECURSIVE SortedMdFiles(_)
SortedMdFiles(files) ==
    IF files = {} THEN <<>>
    ELSE LET first == CHOOSE f \in files :
                         \A g \in files \ {f} : LexLess(FileName(f), FileName(g))
         IN  <<first>> \o SortedMdFiles(files \ {first})

\* _get_sorted_pages: sorted(pages, key=lambda p: p.page_number), as an
\* insertion into the sorted prefix (stable).
RECURSIVE InsertPage(_, _)
InsertPage(sorted, p) ==
    IF sorted = <<>> THEN <<p>>
    ELSE IF p < Head(sorted) THEN <<p>> \o sorted
    ELSE <<Head(sorted)>> \o InsertPage(Tail(sorted), p)

\* The Page rows as loaded, not sorted.
LoadedOrder(pages) == pages

RECURSIVE GetSortedPages(_)
GetSortedPages(pages) ==
    IF pages = <<>> THEN <<>>
    ELSE InsertPage(GetSortedPages(SubSeq(pages, 1, Len(pages) - 1)),
                    pages[Len(pages)])

\* _read_bundle_md: the content of the page's bundle file, "" when the file
\* is not there.
ReadBundleMd(files, page_number) ==
    IF page_number \in files THEN <<page_number>> ELSE <<>>

\* _get_full_text: "".join(_read_bundle_md(...) for page in pages)
RECURSIVE GetFullText(_, _)
GetFullText(files, pages) ==
    IF pages = <<>> THEN <<>>
    ELSE ReadBundleMd(files, Head(pages)) \o GetFullText(files, Tail(pages))

\* The Page rows of one unit as the store returns them: up to two
\* distinct page numbers in any order.
UnitPageLists ==
    {<<>>}
    \cup {<<a>> : a \in 1..MaxBundlePages}
    \cup {ab \in (1..MaxBundlePages) \X (1..MaxBundlePages) :
             ab[1] # ab[2]}

\* merge_bundle: the directory holds no .md file.
MergeBundleNoFiles ==
    /\ merge_pc = "call"
    /\ bundle_md_files = {}
    /\ merge_pc' = "FileNotFoundError"
    /\ UNCHANGED <<bundle_md_files, merged_content, bundle_saved, chunk_pc,
                   full_text>>
    /\ UNCHANGED notBundleVars

\* merge_bundle: the files are read in sorted order and concatenated; the
\* write of the merged file may fail, which is logged only.
MergeBundle(saved) ==
    /\ merge_pc = "call"
    /\ bundle_md_files # {}
    /\ merged_content' = SortedMdFiles(bundle_md_files)
    /\ bundle_saved' = saved
    /\ merge_pc' = "returned"
    /\ UNCHANGED <<bundle_md_files, chunk_pc, full_text>>
    /\ UNCHANGED notBundleVars

\* merge_bundle: reading a file (or making the target directory) raises; the
\* error is logged and None is returned.
MergeBundleReadFails ==
    /\ merge_pc = "call"
    /\ bundle_md_files # {}
    /\ merge_pc' = "None"
    /\ UNCHANGED <<bundle_md_files, merged_content, bundle_saved, chunk_pc,
                   full_text>>
    /\ UNCHANGED notBundleVars

\* ChunkGenerator._get_chunks up to the full text of one unit.
ChunkGetFullText(pages) ==
    /\ merge_pc \notin {"idle", "call"}
    /\ chunk_pc = "call"
    /\ full_text' = GetFullText(bundle_md_files, GetSortedPages(pages))
    /\ chunk_pc' = "returned"
    /\ UNCHANGED <<bundle_md_files, merge_pc, merged_content, bundle_saved>>
    /\ UNCHANGED notBundleVars

BundleNext ==
    \/ MergeBundleNoFiles
    \/ \E saved \in BOOLEAN : MergeBundle(saved)
    \/ MergeBundleReadFails
    \/ \E pages \in UnitPageLists : ChunkGetFullText(pages)

\* The bundle directory of a document before merge_bundle is called.
BundleInitial ==
    /\ bundle_md_files \in SUBSET (1..MaxBundlePages)
    /\ merge_pc = "call"
    /\ merged_content = <<>>
    /\ bundle_saved = FALSE
    /\ chunk_pc = "call"
    /\ full_text = <<>>

BundleIdle ==
    /\ bundle_md_files = {}
    /\ merge_pc = "idle"
    /\ merged_content = <<>>
    /\ bundle_saved = FALSE
    /\ chunk_pc = "idle"
    /\ full_text = <<>>

\* ------------------------------------------------------------------------
\* File passes: file_split.py (FileSplitter), delete.py (ScanDeleteAgent,
\* LabelChunksDeleteAgent, DeleteFilesAgent), ai_search.py (UploadController,
\* IndexUploadAgent, IndexDeleteAgent), over one File row.
\*
\* The passes are separate flows; each is taken to run while no other one is
\* in the middle of the File.  The units of a File are the keyword arguments
\* that the loop of get_split_pdfs computes.
\* ------------------------------------------------------------------------

\* SplitPDF.validate_page_range: TRUE when no ValueError is raised.
ValidatePageRange(split_pdf) ==
    /\ ~(split_pdf.start_page_id > split_pdf.end_page_id)
    /\ ~(split_pdf.end_page_id > split_pdf.n_pages_in_source)
    /\ ~(split_pdf.n_pages_in_target
            # split_pdf.end_page_id - split_pdf.start_page_id + 1)

\* extract_pages_to_pdf: the page range is validated, then the existence of
\* the source; io_ok stands for everything after that (the source has
\* n_pages_in_source pages, the new document has n_pages_in_target pages, and
\* the save succeeds).  Every exception is caught and gives False.
ExtractPagesToPdf(split_pdf, source_exists, io_ok) ==
    IF ~ValidatePageRange(split_pdf) THEN FALSE
    ELSE IF ~source_exists THEN FALSE
    ELSE io_ok

\* get_split_pdfs past its two early exits: one unit per split_id.
FileSplitPdfs(p, b) ==
    [k \in 1..NSplits(p, b) |-> SplitKwargs(k - 1, p, b)]

\* The statuses _fetch_files_to_scan selects.
ScanStatuses ==
    {"wait-for-process", "upload-failed", "failed", "uploaded",
     "delete-failed"}

\* process_files is called.
FileSplitProcessFiles ==
    /\ fs_pc \in {"call", "returned"}
    /\ fs_pc' = "fetch"
    /\ UNCHANGED <<f_status, in_done_dir, fs_split_pdfs, fs_next,
                   fs_split_files, file_split_files, fs_failed_units,
                   fs_logged, f_chunks>>
    /\ UNCHANGED f_folder
    /\ UNCHANGED notFileVars

\* process_files: _fetch_files_to_process finds no File in wait-for-process;
\* the loop breaks and process_files returns.
FileSplitNoMoreFiles ==
    /\ fs_pc = "fetch"
    /\ f_status # "wait-for-process"
    /\ fs_pc' = "returned"
    /\ UNCHANGED <<f_status, in_done_dir, fs_split_pdfs, fs_next,
                   fs_split_files, file_split_files, fs_failed_units,
                   fs_logged, f_chunks>>
    /\ UNCHANGED f_folder
    /\ UNCHANGED notFileVars

\* _process_single_file: get_split_pdfs raises ValueError for a budget <= 0.
\* The except handler logs it and rolls back; nothing was changed, the File
\* is still in wait-for-process, and the `while True` loop fetches again.
FileSplitInvalidBudget ==
    /\ fs_pc = "fetch"
    /\ f_status = "wait-for-process"
    /\ n_pages_per_split <= 0
    /\ fs_logged' = "ValueError"
    /\ fs_pc' = "fetch"
    /\ UNCHANGED <<f_status, in_done_dir, fs_split_pdfs, fs_next,
                   fs_split_files, file_split_files, fs_failed_units,
                   f_chunks>>
    /\ UNCHANGED f_folder
    /\ UNCHANGED notFileVars

\* _process_single_file: get_split_pdfs returns the units ([] for a File of
\* zero pages); split_files = [].
FileSplitGetSplitPdfs ==
    /\ fs_pc = "fetch"
    /\ f_status = "wait-for-process"
    /\ n_pages_per_split > 0
    /\ fs_split_pdfs' = IF file_n_pages = 0 THEN <<>>
                        ELSE FileSplitPdfs(file_n_pages, n_pages_per_split)
    /\ fs_split_files' = <<>>
    /\ fs_next' = 1
    /\ fs_pc' = "loop"
    /\ UNCHANGED <<f_status, in_done_dir, file_split_files, fs_failed_units,
                   fs_logged, f_chunks>>
    /\ UNCHANGED f_folder
    /\ UNCHANGED notFileVars

\* The for loop, _extract_and_validate is True: the entry is appended.
FileSplitUnitExtracted(io_ok) ==
    /\ fs_pc = "loop"
    /\ fs_next <= Len(fs_split_pdfs)
    /\ ExtractPagesToPdf(fs_split_pdfs[fs_next], in_done_dir, io_ok)
    /\ fs_split_files' =
          Append(fs_split_files,
                 SplitFileNew(fs_split_pdfs[fs_next],
                              fs_split_pdfs[fs_next].status))
    /\ fs_next' = fs_next + 1
    /\ UNCHANGED <<f_status, in_done_dir, fs_pc, fs_split_pdfs,
                   file_split_files, fs_failed_units, fs_logged, f_chunks>>
    /\ UNCHANGED f_folder
    /\ UNCHANGED notFileVars

\* The for loop, _extract_and_validate is False: the File is set to failed
\* and committed, no entry is made for the unit, and the loop goes on.
FileSplitUnitFailed(io_ok) ==
    /\ fs_pc = "loop"
    /\ fs_next <= Len(fs_split_pdfs)
    /\ ~ExtractPagesToPdf(fs_split_pdfs[fs_next], in_done_dir, io_ok)
    /\ f_status' = "failed"
    /\ fs_failed_units' = fs_failed_units \cup {fs_split_pdfs[fs_next].split_id}
    /\ fs_next' = fs_next + 1
    /\ UNCHANGED <<in_done_dir, fs_pc, fs_split_pdfs, fs_split_files,
                   file_split_files, fs_logged, f_chunks>>
    /\ UNCHANGED f_folder
    /\ UNCHANGED notFileVars

\* After the loop: _save_split_files_to_db when split_files is not empty,
\* then _update_file_status(session, file, "processing") in every case.
FileSplitFinish ==
    /\ fs_pc = "loop"
    /\ fs_next > Len(fs_split_pdfs)
    /\ file_split_files' = file_split_files \o fs_split_files
    /\ f_status' = "processing"
    /\ fs_pc' = "fetch"
    /\ UNCHANGED <<in_done_dir, fs_split_pdfs, fs_next, fs_split_files,
                   fs_failed_units, fs_logged, f_chunks>>
    /\ UNCHANGED f_folder
    /\ UNCHANGED notFileVars

\* The user takes the source pdf out of the done dir.
SourceRemoved ==
    /\ fs_pc \in {"call", "returned"}
    /\ in_done_dir
    /\ in_done_dir' = FALSE
    /\ UNCHANGED <<f_status, fs_pc, fs_split_pdfs, fs_next, fs_split_files,
                   file_split_files, fs_failed_units, fs_logged, f_chunks>>
    /\ UNCHANGED f_folder
    /\ UNCHANGED notFileVars

\* ChunkGenerator: the units of the File are chunked; the Chunk rows wait
\* for upload.  The selection looks at the SplitFile rows only.
ChunksGenerated ==
    /\ fs_pc \in {"call", "returned"}
    /\ file_split_files # <<>>
    /\ f_chunks = "none"
    /\ f_chunks' = "wait-for-upload"
    /\ UNCHANGED <<f_status, in_done_dir, fs_pc, fs_split_pdfs, fs_next,
                   fs_split_files, file_split_files, fs_failed_units,
                   fs_logged>>
    /\ UNCHANGED f_folder
    /\ UNCHANGED notFileVars

\* ScanDeleteAgent.scan_wait_for_delete: a File in one of ScanStatuses whose
\* source is no longer in the done dir is set to wait-for-delete.
ScanWaitForDelete ==
    /\ fs_pc \in {"call", "returned"}
    /\ f_status \in ScanStatuses
    /\ ~in_done_dir
    /\ f_status' = "wait-for-delete"
    /\ UNCHANGED <<in_done_dir, fs_pc, fs_split_pdfs, fs_next, fs_split_files,
                   file_split_files, fs_failed_units, fs_logged, f_chunks>>
    /\ UNCHANGED f_folder
    /\ UNCHANGED notFileVars

\* LabelChunksDeleteAgent.label_chunks_for_delete: the Chunk rows of a File
\* in wait-for-delete are set to wait-for-delete.
LabelChunksForDelete ==
    /\ fs_pc \in {"call", "returned"}
    /\ f_status = "wait-for-delete"
    /\ f_chunks \notin {"none", "wait-for-delete"}
    /\ f_chunks' = "wait-for-delete"
    /\ UNCHANGED <<f_status, in_done_dir, fs_pc, fs_split_pdfs, fs_next,
                   fs_split_files, file_split_files, fs_failed_units,
                   fs_logged>>
    /\ UNCHANGED f_folder
    /\ UNCHANGED notFileVars

\* UploadController.upload / IndexUploadAgent.upload_chunks for the File's
\* chunks in wait-for-upload, whatever the File's status.  outcome:
\*   "uploaded"   every batch is posted, the chunks are marked uploaded;
\*   "exhausted"  the retries run out, which _upload only logs;
\*   "exception"  _upload raises.
\* The File is set to uploaded unless _upload raised, then to upload-failed.
UploadChunks(outcome) ==
    /\ fs_pc \in {"call", "returned"}
    /\ f_chunks = "wait-for-upload"
    /\ f_chunks' = IF outcome = "uploaded" THEN "uploaded" ELSE f_chunks
    /\ f_status' = IF outcome = "exception" THEN "upload-failed" ELSE "uploaded"
    /\ UNCHANGED <<in_done_dir, fs_pc, fs_split_pdfs, fs_next, fs_split_files,
                   file_split_files, fs_failed_units, fs_logged>>
    /\ UNCHANGED f_folder
    /\ UNCHANGED notFileVars

\* DeleteController.delete / IndexDeleteAgent.delete_chunks: the File's
\* chunks that are in wait-for-delete are posted for deletion in batches.
\* outcome:
\*   "deleted"       every batch is posted, all the chunks are deleted;
\*   "some-deleted"  a batch ran out of attempts, which is only logged: its
\*                   chunks stay wait-for-delete, the others are deleted.
\* (When every batch fails nothing changes.)
DeleteChunks(outcome) ==
    /\ fs_pc \in {"call", "returned"}
    /\ f_chunks \in {"wait-for-delete", "some-deleted"}
    /\ f_chunks' = outcome
    /\ UNCHANGED <<f_status, in_done_dir, fs_pc, fs_split_pdfs, fs_next,
                   fs_split_files, file_split_files, fs_failed_units,
                   fs_logged>>
    /\ UNCHANGED f_folder
    /\ UNCHANGED notFileVars

\* DeleteFilesAgent._delete_folder: a folder that is not there (or is no
\* directory) is logged and left; otherwise shutil.rmtree removes it, and an
\* exception of rmtree is logged and swallowed, the folder being left.
DeleteFolder(folder, rmtree_ok) == folder /\ ~rmtree_ok

\* DeleteFilesAgent._process_file_deletion for a File in wait-for-delete:
\* when every chunk of its units is deleted the SplitFile rows are deleted,
\* _delete_folder is called and the File is set to deleted, whatever
\* _delete_folder did; otherwise _check_all_deleted_from_ai_search raises
\* and the File is set to delete-failed.
DeleteFile(rmtree_ok) ==
    /\ fs_pc \in {"call", "returned"}
    /\ f_status = "wait-for-delete"
    /\ IF f_chunks \in {"none", "deleted"} \/ file_split_files = <<>>
       THEN /\ file_split_files' = <<>>
            /\ f_folder' = DeleteFolder(f_folder, rmtree_ok)
            /\ f_status' = "deleted"
       ELSE /\ f_status' = "delete-failed"
            /\ UNCHANGED <<file_split_files, f_folder>>
    /\ UNCHANGED <<in_done_dir, fs_pc, fs_split_pdfs, fs_next, fs_split_files,
                   fs_failed_units, fs_logged, f_chunks>>
    /\ UNCHANGED notFileVars

FileNext ==
    \/ FileSplitProcessFiles
    \/ FileSplitNoMoreFiles
    \/ FileSplitInvalidBudget
    \/ FileSplitGetSplitPdfs
    \/ \E io_ok \in BOOLEAN : FileSplitUnitExtracted(io_ok)
    \/ \E io_ok \in BOOLEAN : FileSplitUnitFailed(io_ok)
    \/ FileSplitFinish
    \/ SourceRemoved
    \/ ChunksGenerated
    \/ ScanWaitForDelete
    \/ LabelChunksForDelete
    \/ \E outcome \in {"uploaded", "exhausted", "exception"} :
          UploadChunks(outcome)
    \/ \E outcome \in {"deleted", "some-deleted"} : DeleteChunks(outcome)
    \/ \E rmtree_ok \in BOOLEAN : DeleteFile(rmtree_ok)

\* A File the scan has just recorded: wait-for-process, nothing split yet.
FileInitial ==
    /\ file_n_pages \in 0..MaxFilePages
    /\ n_pages_per_split \in MinBudget..MaxFileBudget
    /\ split_pc = "idle"
    /\ split_pdfs = <<>>
    /\ f_status = "wait-for-process"
    /\ in_done_dir = TRUE
    /\ fs_pc = "call"
    /\ fs_split_pdfs = <<>>
    /\ fs_next = 1
    /\ fs_split_files = <<>>
    /\ file_split_files = <<>>
    /\ fs_failed_units = {}
    /\ fs_logged = "none"
    /\ f_chunks = "none"
    /\ f_folder = TRUE

FileIdle ==
    /\ f_status = "wait-for-process"
    /\ in_done_dir = TRUE
    /\ fs_pc = "idle"
    /\ fs_split_pdfs = <<>>
    /\ fs_next = 1
    /\ fs_split_files = <<>>
    /\ file_split_files = <<>>
    /\ fs_failed_units = {}
    /\ fs_logged = "none"
    /\ f_chunks = "none"
    /\ f_folder = TRUE

\* ------------------------------------------------------------------------
\* Figure enrichment: figure.py, FigureDescriptionGenerator
\*
\* A description is "None" (null), "generated" (the text the model
\* returned) or ErrorDescription.  session.commit() in _save_description is
\* taken to succeed.
\* ------------------------------------------------------------------------
Figures == 1..MaxFigures

\* The text the except handler of generate() saves.
ErrorDescription == "Error: Failed to generate description."

\* _fetch_figures_to_process: the Figures whose description is null, from
\* Figure f on.
RECURSIVE FetchFiguresFrom(_, _)
FetchFiguresFrom(f, description) ==
    IF f > MaxFigures THEN <<>>
    ELSE (IF description[f] = "None" THEN <<f>> ELSE <<>>)
         \o FetchFiguresFrom(f + 1, description)

\* _save_description: figure.description = description; session.commit().
SaveDescription(description, f, text) == [description EXCEPT ![f] = text]

\* The steps of the try block that can raise.  figure_path is assigned by
\* the second one, so it is not assigned when one of the first two raises.
FigureSteps == {"_get_raw_md_path", "_get_figure_path", "_generate_description"}

\* generate(): the Figures without a description are fetched.
FigureGenerateFetch ==
    /\ fig_pc = "call"
    /\ fig_queue' = FetchFiguresFrom(1, fig_description)
    /\ fig_path_bound' = FALSE
    /\ fig_pc' = "loop"
    /\ UNCHANGED <<fig_description, fig_failed, n_fig_passes>>
    /\ UNCHANGED notFigureVars

\* The try block gets through: the generated description is saved.
FigureDescribed ==
    /\ fig_pc = "loop"
    /\ fig_queue # <<>>
    /\ fig_description' =
          SaveDescription(fig_description, Head(fig_queue), "generated")
    /\ fig_path_bound' = TRUE
    /\ fig_queue' = Tail(fig_queue)
    /\ UNCHANGED <<fig_pc, fig_failed, n_fig_passes>>
    /\ UNCHANGED notFigureVars

\* A step of the try block raises and the handler runs with figure_path
\* assigned (by this iteration or by an earlier one): the error is logged
\* and ErrorDescription is saved as the Figure's description.
FigureErrorSaved(step) ==
    /\ fig_pc = "loop"
    /\ fig_queue # <<>>
    /\ step = "_generate_description" \/ fig_path_bound
    /\ fig_description' =
          SaveDescription(fig_description, Head(fig_queue), ErrorDescription)
    /\ fig_path_bound' = TRUE
    /\ fig_failed' = fig_failed \cup {Head(fig_queue)}
    /\ fig_queue' = Tail(fig_queue)
    /\ UNCHANGED <<fig_pc, n_fig_passes>>
    /\ UNCHANGED notFigureVars

\* A path lookup raises before figure_path was ever assigned in this call:
\* the f-string of the handler's log line raises UnboundLocalError, which
\* leaves generate(); nothing is saved for this Figure or the ones after it.
FigureErrorUnbound(step) ==
    /\ fig_pc = "loop"
    /\ fig_queue # <<>>
    /\ step # "_generate_description"
    /\ ~fig_path_bound
    /\ fig_failed' = fig_failed \cup {Head(fig_queue)}
    /\ fig_pc' = "UnboundLocalError"
    /\ UNCHANGED <<fig_description, fig_queue, fig_path_bound, n_fig_passes>>
    /\ UNCHANGED notFigureVars

\* generate(): the loop over the fetched Figures is over.
FigureGenerateReturn ==
    /\ fig_pc = "loop"
    /\ fig_queue = <<>>
    /\ fig_pc' = "returned"
    /\ UNCHANGED <<fig_description, fig_queue, fig_path_bound, fig_failed,
                   n_fig_passes>>
    /\ UNCHANGED notFigureVars

\* A later enrichment pass: generate() is called again.
FigureGenerateAgain ==
    /\ fig_pc \in {"returned", "UnboundLocalError"}
    /\ n_fig_passes < MaxFigurePasses
    /\ fig_pc' = "call"
    /\ n_fig_passes' = n_fig_passes + 1
    /\ UNCHANGED <<fig_description, fig_queue, fig_path_bound, fig_failed>>
    /\ UNCHANGED notFigureVars

FigureNext ==
    \/ FigureGenerateFetch
    \/ FigureDescribed
    \/ \E step \in FigureSteps : FigureErrorSaved(step)
    \/ \E step \in FigureSteps : FigureErrorUnbound(step)
    \/ FigureGenerateReturn
    \/ FigureGenerateAgain

\* The Figure rows as the extractor stored them (description null), or
\* described by an earlier pass; generate() is about to be called.
FigureInitial ==
    /\ fig_description \in [Figures -> {"None", "generated"}]
    /\ fig_queue = <<>>
    /\ fig_pc = "call"
    /\ fig_path_bound = FALSE
    /\ fig_failed = {}
    /\ n_fig_passes = 1

FigureIdle ==
    /\ fig_description = [f \in Figures |-> "None"]
    /\ fig_queue = <<>>
    /\ fig_pc = "idle"
    /\ fig_path_bound = FALSE
    /\ fig_failed = {}
    /\ n_fig_passes = 0

\* ------------------------------------------------------------------------
\* API: main.py, auto_ai_service (POST /ai_service) and handle_action.
\*
\* A string is the sequence of its character codes.  The bundler that
\* di_flow calls is not part of the sources: what the pipeline hands to
\* handle_action is any of PipelineValues, and text only for a Document that
\* has bundle files.
\* ------------------------------------------------------------------------
allowed_extensions == {".pdf", ".docx"}

NoResponse ==
    [status |-> "none", action |-> "None", error_message |-> "",
     error_code |-> 0]

\* ASErrorResponseModel(status="error", action=..., error_message=...,
\* error_code=...)
ASErrorResponseModel(action, error_message, error_code) ==
    [status |-> "error", action |-> action, error_message |-> error_message,
     error_code |-> error_code]

\* ASSuccessResponseModel(status="success", action=None, ...)
ASSuccessResponseModel ==
    [status |-> "success", action |-> "None", error_message |-> "",
     error_code |-> 200]

\* The characters str.strip() removes: tab, newline, vertical tab, form
\* feed, carriage return, space.
Whitespace == {9, 10, 11, 12, 13, 32}

\* A strip that removes nothing.
StripNothing(s) == s

\* str.strip()
RECURSIVE Strip(_)
Strip(s) ==
    IF s = <<>> THEN <<>>
    ELSE IF Head(s) \in Whitespace THEN Strip(Tail(s))
    ELSE IF s[Len(s)] \in Whitespace THEN Strip(SubSeq(s, 1, Len(s) - 1))
    ELSE s

\* merge_bundle's merged_content for the sorted files: per file "##", the
\* content (stood for by the page's digits) and "\n\n---\n\n".
RECURSIVE MergedText(_)
MergedText(md_files) ==
    IF md_files = <<>> THEN <<>>
    ELSE <<35, 35>> \o Digits(Head(md_files))
         \o <<10, 10, 45, 45, 45, 10, 10>> \o MergedText(Tail(md_files))

\* What run_ai_service_pipeline gives handle_action for a Document with the
\* bundle files `files`: an exception (merge_bundle raises FileNotFoundError
\* when there is no file), None (merge_bundle's own error return), an empty
\* or blank string, or the merged text when there are files.
PipelineValues(files) ==
    {[kind |-> "raise", text |-> <<>>],
     [kind |-> "None", text |-> <<>>],
     [kind |-> "str", text |-> <<>>],
     [kind |-> "str", text |-> <<32, 10>>]}
    \cup (IF files = {} THEN {}
          ELSE {[kind |-> "str", text |-> MergedText(SortedMdFiles(files))]})

AllPipelineValues ==
    UNION {PipelineValues(files) : files \in SUBSET (1..MaxApiPages)}

\* handle_action's test `not merged_bundle or merged_bundle.strip() == ""`
EmptyResponse(merged_bundle) ==
    \/ merged_bundle.kind = "None"
    \/ merged_bundle.text = <<>>
    \/ Strip(merged_bundle.text) = <<>>

\* f"Error while processing '{current_step}' service."
ServiceErrorMessage(current_step) ==
    CASE current_step = "" -> "Error while processing '' service."
      [] current_step = "summarize" ->
            "Error while processing 'summarize' service."
      [] current_step = "translate" ->
            "Error while processing 'translate' service."
      [] OTHER -> "Error while processing 'qna' service."

ApiRespond(response) ==
    /\ api_response' = response
    /\ api_pc' = "responded"

\* file_ext not in allowed_extensions, action given: the error response.
ApiInvalidFormat ==
    /\ api_pc = "call"
    /\ api_ext \notin allowed_extensions
    /\ api_action # "None"
    /\ ApiRespond(ASErrorResponseModel(api_action,
          "Invalid file format. Only .pdf and .docx are supported.", 400))
    /\ UNCHANGED <<api_ext, api_action, api_file, api_account_id, api_files,
                   api_merged_bundle, api_handle, api_pipeline_ran,
                   api_db_touched>>
    /\ UNCHANGED notApiVars

\* file_ext not in allowed_extensions, action absent: action.value on None
\* raises AttributeError, which nothing handles.
ApiInvalidFormatNoAction ==
    /\ api_pc = "call"
    /\ api_ext \notin allowed_extensions
    /\ api_action = "None"
    /\ api_pc' = "AttributeError"
    /\ UNCHANGED <<api_ext, api_action, api_file, api_account_id, api_files,
                   api_merged_bundle, api_handle, api_response,
                   api_pipeline_ran, api_db_touched>>
    /\ UNCHANGED notApiVars

\* file.read() raises: HTTPException(500).
ApiReadError ==
    /\ api_pc = "call"
    /\ api_ext \in allowed_extensions
    /\ api_file = "read-error"
    /\ api_pc' = "HTTPException"
    /\ UNCHANGED <<api_ext, api_action, api_file, api_account_id, api_files,
                   api_merged_bundle, api_handle, api_response,
                   api_pipeline_ran, api_db_touched>>
    /\ UNCHANGED notApiVars

\* The size and account_id checks.
ApiRejected ==
    /\ api_pc = "call"
    /\ api_ext \in allowed_extensions
    /\ api_file # "read-error"
    /\ api_file = "too-large" \/ api_account_id = ""
    /\ ApiRespond(ASErrorResponseModel("None",
          IF api_file = "too-large" THEN "File size exceeds the 10MB limit."
          ELSE "The 'account_id' parameter is required.", 400))
    /\ UNCHANGED <<api_ext, api_action, api_file, api_account_id, api_files,
                   api_merged_bundle, api_handle, api_pipeline_ran,
                   api_db_touched>>
    /\ UNCHANGED notApiVars

\* The request passes the checks.
ApiValidated ==
    /\ api_pc = "call"
    /\ api_ext \in allowed_extensions
    /\ api_file = "ok"
    /\ api_account_id # ""
    /\ api_pc' = "validated"
    /\ UNCHANGED <<api_ext, api_action, api_file, api_account_id, api_files,
                   api_merged_bundle, api_handle, api_response,
                   api_pipeline_ran, api_db_touched>>
    /\ UNCHANGED notApiVars

\* handle_action: save_upload_file raises (HTTPException), caught by
\* handle_action's handler and raised again as RuntimeError.
ApiHandleActionSaveFails ==
    /\ api_pc = "validated"
    /\ api_handle' = "RuntimeError"
    /\ api_pc' = "handled"
    /\ UNCHANGED <<api_ext, api_action, api_file, api_account_id, api_files,
                   api_merged_bundle, api_response, api_pipeline_ran,
                   api_db_touched>>
    /\ UNCHANGED notApiVars

\* handle_action: the pipeline runs; an exception of it, or an empty
\* response (ValueError), is raised again as RuntimeError; otherwise the
\* merged bundle is returned.
ApiHandleAction(merged_bundle) ==
    /\ api_pc = "validated"
    /\ merged_bundle \in PipelineValues(api_files)
    /\ api_pipeline_ran' = TRUE
    /\ api_merged_bundle' = merged_bundle
    /\ api_handle' = IF merged_bundle.kind = "raise" THEN "RuntimeError"
                     ELSE IF EmptyResponse(merged_bundle) THEN "RuntimeError"
                     ELSE "returned"
    /\ api_pc' = "handled"
    /\ UNCHANGED <<api_ext, api_action, api_file, api_account_id, api_files,
                   api_response, api_db_touched>>
    /\ UNCHANGED notApiVars

\* The try block around handle_action and the three prompts raises at
\* current_step ("" while handle_action runs): the error response.
ApiServiceError(current_step) ==
    /\ api_pc = "handled"
    /\ IF api_handle = "RuntimeError" THEN current_step = ""
       ELSE current_step \in {"summarize", "translate", "qna"}
    /\ ApiRespond(ASErrorResponseModel(current_step,
          ServiceErrorMessage(current_step), 500))
    /\ UNCHANGED <<api_ext, api_action, api_file, api_account_id, api_files,
                   api_merged_bundle, api_handle, api_pipeline_ran,
                   api_db_touched>>
    /\ UNCHANGED notApiVars

\* The three prompts return nothing: the error response.
ApiEmptyResults ==
    /\ api_pc = "handled"
    /\ api_handle = "returned"
    /\ ApiRespond(ASErrorResponseModel("None",
          "Empty response from AOAI service. Please try again later.", 500))
    /\ UNCHANGED <<api_ext, api_action, api_file, api_account_id, api_files,
                   api_merged_bundle, api_handle, api_pipeline_ran,
                   api_db_touched>>
    /\ UNCHANGED notApiVars

\* The record is written (db_ok) or the database block raises.
ApiSaveRecord(db_ok) ==
    /\ api_pc = "handled"
    /\ api_handle = "returned"
    /\ api_db_touched' = TRUE
    /\ ApiRespond(IF db_ok THEN ASSuccessResponseModel
                  ELSE ASErrorResponseModel("None",
                          "Internal server error when saving result to DB.",
                          500))
    /\ UNCHANGED <<api_ext, api_action, api_file, api_account_id, api_files,
                   api_merged_bundle, api_handle, api_pipeline_ran>>
    /\ UNCHANGED notApiVars

ApiNext ==
    \/ ApiInvalidFormat
    \/ ApiInvalidFormatNoAction
    \/ ApiReadError
    \/ ApiRejected
    \/ ApiValidated
    \/ ApiHandleActionSaveFails
    \/ \E merged_bundle \in AllPipelineValues :
          ApiHandleAction(merged_bundle)
    \/ \E current_step \in {"", "summarize", "translate", "qna"} :
          ApiServiceError(current_step)
    \/ ApiEmptyResults
    \/ \E db_ok \in BOOLEAN : ApiSaveRecord(db_ok)

\* A request has arrived.
ApiInitial ==
    /\ api_ext \in {".pdf", ".docx", ".txt"}
    /\ api_action \in {"None", "summarize", "translate", "qna"}
    /\ api_file \in {"ok", "too-large", "read-error"}
    /\ api_account_id \in {"", "account"}
    /\ api_files \in SUBSET (1..MaxApiPages)
    /\ api_pc = "call"
    /\ api_merged_bundle = [kind |-> "None", text |-> <<>>]
    /\ api_handle = "none"
    /\ api_response = NoResponse
    /\ api_pipeline_ran = FALSE
    /\ api_db_touched = FALSE

ApiIdle ==
    /\ api_ext = ".pdf"
    /\ api_action = "None"
    /\ api_file = "ok"
    /\ api_account_id = ""
    /\ api_files = {}
    /\ api_pc = "idle"
    /\ api_merged_bundle = [kind |-> "None", text |-> <<>>]
    /\ api_handle = "none"
    /\ api_response = NoResponse
    /\ api_pipeline_ran = FALSE
    /\ api_db_touched = FALSE

\* ------------------------------------------------------------------------
\* Repeated reads: merge_bundle (file_process.py) and the chunker's
\* _get_full_text (chunking.py) called several times on the same bundle
\* files and the same Page rows.  os.listdir returns the file names in an
\* order of its own, and the store returns the Page rows in an order of its
\* own: each call draws one.
\* ------------------------------------------------------------------------

\* Page numbers of one and of two digits.
RepeatPages == {3 * k : k \in 1..MaxRepeatPages}

\* The orders in which the members of a set can be listed.
Listings(S) ==
    {l \in [1..Cardinality(S) -> S] :
        \A i, j \in 1..Cardinality(S) : l[i] = l[j] => i = j}

AllListings == UNION {Listings(S) : S \in SUBSET RepeatPages}

\* A sort that leaves the list as it is.
ListedOrder(md_files) == md_files

\* sorted(names) on the listed files, as an insertion of each name into
\* the sorted prefix; a file is named by its page.
RECURSIVE InsertName(_, _)
InsertName(sorted, f) ==
    IF sorted = <<>> THEN <<f>>
    ELSE IF LexLess(FileName(f), FileName(Head(sorted))) THEN <<f>> \o sorted
    ELSE <<Head(sorted)>> \o InsertName(Tail(sorted), f)

RECURSIVE SortedNames(_)
SortedNames(md_files) ==
    IF md_files = <<>> THEN <<>>
    ELSE InsertName(SortedNames(SubSeq(md_files, 1, Len(md_files) - 1)),
                    md_files[Len(md_files)])

\* merge_bundle on a directory that os.listdir lists as `listing`:
\* the merged text is returned (the directory holds a file).
RepeatMergeBundle(listing) ==
    /\ Len(rep_merged) < MaxCalls
    /\ rep_files # {}
    /\ listing \in Listings(rep_files)
    /\ rep_merged' = Append(rep_merged, MergedText(SortedNames(listing)))
    /\ UNCHANGED <<rep_pages, rep_files, rep_texts>>
    /\ UNCHANGED notRepeatVars

\* _get_chunks up to the full text, the unit's Page rows loaded as `rows`.
RepeatGetFullText(rows) ==
    /\ Len(rep_texts) < MaxCalls
    /\ rows \in Listings(rep_pages)
    /\ rep_texts' =
          Append(rep_texts, GetFullText(rep_files, GetSortedPages(rows)))
    /\ UNCHANGED <<rep_pages, rep_files, rep_merged>>
    /\ UNCHANGED notRepeatVars

RepeatNext ==
    \/ \E listing \in AllListings : RepeatMergeBundle(listing)
    \/ \E rows \in AllListings : RepeatGetFullText(rows)

\* A unit with its Page rows and the bundle files written for them.
RepeatInitial ==
    /\ rep_pages \in SUBSET RepeatPages
    /\ rep_files \in SUBSET rep_pages
    /\ rep_merged = <<>>
    /\ rep_texts = <<>>

RepeatIdle ==
    /\ rep_pages = {}
    /\ rep_files = {}
    /\ rep_merged = <<>>
    /\ rep_texts = <<>>

\* ------------------------------------------------------------------------
\* DIProcessor: doc_intel.py, DIProcessor.run
\*
\* The statement that fetched the units in wait-for-di is a comment (line
\* 356, and the method it called, lines 368-375), so nothing assigns
\* split_files in run and the module has no global of that name.
\* ------------------------------------------------------------------------
RunUnits == 1..MaxRunUnits

RunStatuses == {"wait-for-di", "di-processing", "di-success", "di-failed",
                "failed"}

\* The names that are bound where run reads split_files (line 357): the
\* parameter and the target of the with statement.
RunBoundNames == {"self", "session"}

\* Reading a name: its value when the name is bound, NameError otherwise.
ReadName(name) == IF name \in RunBoundNames THEN "bound" ELSE "NameError"

\* with self.SessionLocal() as session:
RunOpenSession ==
    /\ run_pc = "call"
    /\ run_pc' = "while"
    /\ UNCHANGED <<run_status, run_end_flag>>
    /\ UNCHANGED notRunVars

\* while not self.end_flag: ... if not split_files:
\* the loop ends when end_flag is set; otherwise the test of line 357 reads
\* split_files, and the NameError leaves the with block and run.
RunWhile ==
    /\ run_pc = "while"
    /\ run_pc' = IF run_end_flag THEN "returned"
                 ELSE IF ReadName("split_files") = "bound" THEN "if"
                 ELSE "NameError"
    /\ UNCHANGED <<run_status, run_end_flag>>
    /\ UNCHANGED notRunVars

RunNext ==
    \/ RunOpenSession
    \/ RunWhile

\* A DIProcessor as __init__ leaves it (end_flag False), the units of the
\* store in any status.
RunInitial ==
    /\ run_status \in [RunUnits -> RunStatuses]
    /\ run_end_flag = FALSE
    /\ run_pc = "call"

RunIdle ==
    /\ run_status = [u \in RunUnits |-> "wait-for-di"]
    /\ run_end_flag = FALSE
    /\ run_pc = "idle"

\* ------------------------------------------------------------------------
\* Index passes: ai_search.py, batch_items, IndexUploadAgent and
\* IndexDeleteAgent, over the chunks that the controller fetched for one
\* File (wait-for-upload for an upload, wait-for-delete for a delete).
\*
\* session.commit() of _mark_uploaded and _update_chunk_status is taken to
\* succeed.  A post that raises RequestException counts as a failed post
\* (_post_payload returns None or False).
\* ------------------------------------------------------------------------
IndexChunks == 1..MaxChunks

\* One batch that holds every item.
BatchItemsWhole(items, batch_size) ==
    IF items = <<>> THEN <<>> ELSE <<items>>

\* batch_items: for each `first` left in the iterator, the batch is the next
\* batch_size - 1 items (islice) followed by first.
RECURSIVE BatchItems(_, _)
BatchItems(items, batch_size) ==
    IF items = <<>> THEN <<>>
    ELSE LET last == Min(Len(items), batch_size)
         IN  <<SubSeq(items, 2, last) \o <<Head(items)>>>>
                \o BatchItems(SubSeq(items, last + 1, Len(items)), batch_size)

\* total_batches = (len(items) + self.batch_size - 1) // self.batch_size
TotalBatches(n, batch_size) == (n + batch_size - 1) \div batch_size

\* A retry loop that runs once more than retry_attempts.
AttemptsLeftOneMore(attempt, retry_attempts) == attempt <= retry_attempts + 1

\* for attempt in range(1, self.retry_attempts + 1)
AttemptsLeft(attempt, retry_attempts) == attempt <= retry_attempts

\* The status the agent fetches the chunks in, and the one it writes.
PendingStatus(mode) ==
    IF mode = "upload" THEN "wait-for-upload" ELSE "wait-for-delete"

DoneStatus(mode) == IF mode = "upload" THEN "uploaded" ELSE "deleted"

\* _mark_uploaded / _update_chunk_status: every chunk of the batch is set.
MarkBatch(st, batch, status) ==
    [c \in DOMAIN st |->
        IF \E i \in 1..Len(batch) : batch[i] = c THEN status ELSE st[c]]

\* _upload / _process_deletion is entered: batch_items(items, batch_size).
IndexStart ==
    /\ ix_pc = "call"
    /\ ix_batches' = BatchItems(ix_items, ix_batch_size)
    /\ ix_batch' = 1
    /\ ix_pc' = "batch"
    /\ UNCHANGED <<ix_mode, ix_items, ix_batch_size, ix_retry_attempts,
                   ix_attempt, ix_posts, ix_posted_ok, ix_late_posts,
                   ix_chunk_status, ix_file_status>>
    /\ UNCHANGED notIndexVars

\* _upload: _prepare_payload raises (embed_query fails).  The exception
\* leaves _upload; upload_chunks sets the File to upload-failed.
IndexPrepareRaises ==
    /\ ix_pc = "batch"
    /\ ix_mode = "upload"
    /\ ix_batch <= Len(ix_batches)
    /\ ix_file_status' = "upload-failed"
    /\ ix_pc' = "returned"
    /\ UNCHANGED <<ix_mode, ix_items, ix_batch_size, ix_retry_attempts,
                   ix_batches, ix_batch, ix_attempt, ix_posts, ix_posted_ok,
                   ix_late_posts, ix_chunk_status>>
    /\ UNCHANGED notIndexVars

\* The payload of the next batch is built; the retry loop starts.
IndexBeginBatch ==
    /\ ix_pc = "batch"
    /\ ix_batch <= Len(ix_batches)
    /\ ix_attempt' = 1
    /\ ix_pc' = "attempt"
    /\ UNCHANGED <<ix_mode, ix_items, ix_batch_size, ix_retry_attempts,
                   ix_batches, ix_batch, ix_posts, ix_posted_ok,
                   ix_late_posts, ix_chunk_status, ix_file_status>>
    /\ UNCHANGED notIndexVars

\* One attempt: _post_payload(payload).  A post that succeeds marks the
\* chunks of the batch and ends the retry loop (break / return True); a post
\* that fails is logged and the loop goes on.
IndexPost(ok) ==
    /\ ix_pc = "attempt"
    /\ AttemptsLeft(ix_attempt, ix_retry_attempts)
    /\ ix_posts' = [ix_posts EXCEPT ![ix_batch] = @ + 1]
    /\ ix_late_posts' =
          IF ix_posted_ok[ix_batch]
          THEN [ix_late_posts EXCEPT ![ix_batch] = @ + 1]
          ELSE ix_late_posts
    /\ IF ok
       THEN /\ ix_chunk_status' =
                  MarkBatch(ix_chunk_status, ix_batches[ix_batch],
                            DoneStatus(ix_mode))
            /\ ix_posted_ok' = [ix_posted_ok EXCEPT ![ix_batch] = TRUE]
            /\ ix_batch' = ix_batch + 1
            /\ ix_pc' = "batch"
            /\ UNCHANGED ix_attempt
       ELSE /\ ix_attempt' = ix_attempt + 1
            /\ UNCHANGED <<ix_chunk_status, ix_posted_ok, ix_batch, ix_pc>>
    /\ UNCHANGED <<ix_mode, ix_items, ix_batch_size, ix_retry_attempts,
                   ix_batches, ix_file_status>>
    /\ UNCHANGED notIndexVars

\* The retry loop ran out: "Exhausted retries" is logged and the for loop
\* over the batches goes on.
IndexExhausted ==
    /\ ix_pc = "attempt"
    /\ ~AttemptsLeft(ix_attempt, ix_retry_attempts)
    /\ ix_batch' = ix_batch + 1
    /\ ix_pc' = "batch"
    /\ UNCHANGED <<ix_mode, ix_items, ix_batch_size, ix_retry_attempts,
                   ix_batches, ix_attempt, ix_posts, ix_posted_ok,
                   ix_late_posts, ix_chunk_status, ix_file_status>>
    /\ UNCHANGED notIndexVars

\* The batches are through.  upload_chunks: _upload returned, the File is
\* set to uploaded.  delete_chunks: success is logged, the File is left to
\* DeleteFilesAgent.
IndexFinish ==
    /\ ix_pc = "batch"
    /\ ix_batch > Len(ix_batches)
    /\ ix_file_status' =
          IF ix_mode = "upload" THEN "uploaded" ELSE ix_file_status
    /\ ix_pc' = "returned"
    /\ UNCHANGED <<ix_mode, ix_items, ix_batch_size, ix_retry_attempts,
                   ix_batches, ix_batch, ix_attempt, ix_posts, ix_posted_ok,
                   ix_late_posts, ix_chunk_status>>
    /\ UNCHANGED notIndexVars

IndexNext ==
    \/ IndexStart
    \/ IndexPrepareRaises
    \/ IndexBeginBatch
    \/ \E ok \in BOOLEAN : IndexPost(ok)
    \/ IndexExhausted
    \/ IndexFinish

\* The controller has fetched the pending chunks of one File and built the
\* agent.
IndexInitial ==
    /\ ix_mode \in {"upload", "delete"}
    /\ \E n \in 0..MaxChunks : ix_items = [i \in 1..n |-> i]
    /\ ix_batch_size \in 1..MaxBatchSize
    /\ ix_retry_attempts \in 1..MaxRetryAttempts
    /\ ix_batches = <<>>
    /\ ix_batch = 1
    /\ ix_attempt = 1
    /\ ix_posts = [b \in IndexChunks |-> 0]
    /\ ix_posted_ok = [b \in IndexChunks |-> FALSE]
    /\ ix_late_posts = [b \in IndexChunks |-> 0]
    /\ ix_chunk_status = [c \in IndexChunks |-> PendingStatus(ix_mode)]
    /\ ix_file_status =
          IF ix_mode = "upload" THEN "processing" ELSE "wait-for-delete"
    /\ ix_pc = "call"

IndexIdle ==
    /\ ix_mode = "upload"
    /\ ix_items = <<>>
    /\ ix_batch_size = 1
    /\ ix_retry_attempts = 1
    /\ ix_batches = <<>>
    /\ ix_batch = 1
    /\ ix_attempt = 1
    /\ ix_posts = [b \in IndexChunks |-> 0]
    /\ ix_posted_ok = [b \in IndexChunks |-> FALSE]
    /\ ix_late_posts = [b \in IndexChunks |-> 0]
    /\ ix_chunk_status = [c \in IndexChunks |-> "wait-for-upload"]
    /\ ix_file_status = "processing"
    /\ ix_pc = "idle"

\* ------------------------------------------------------------------------
\* Chunker: chunking.py, ChunkGenerator
\*
\* bulk_save_objects inserts the Chunk rows in the session's open
\* transaction; the commit of _update_split_file_status makes them and the
\* status durable together.  That commit is taken to succeed.
\* ------------------------------------------------------------------------
ChunkUnits == 1..MaxChunkUnits

\* A rollback that is left out: the rows of the transaction stay.
RollbackForgotten(pending) == pending

\* session.rollback(): the rows inserted in the open transaction are gone.
Rollback(pending) == 0

\* _fetch_splitfiles_to_process: the units in bundle-success, in id order.
RECURSIVE FetchBundled(_, _)
FetchBundled(st, u) ==
    IF u > MaxChunkUnits THEN <<>>
    ELSE (IF st[u] = "bundle-success" THEN <<u>> ELSE <<>>)
            \o FetchBundled(st, u + 1)

\* generate: the fetch; with no unit found generate returns.
ChunkGenerate ==
    /\ ck_pc = "call"
    /\ ck_batch' = FetchBundled(ck_status, 1)
    /\ ck_next' = 1
    /\ ck_pc' = IF ck_batch' = <<>> THEN "returned" ELSE "loop"
    /\ UNCHANGED <<ck_status, ck_text_chunks, ck_stored, ck_pending,
                   ck_requeues>>
    /\ UNCHANGED notChunkVars

\* _process_single_splitfile: _get_chunks raises (a bundle file cannot be
\* read, the splitter fails) before anything is inserted.
ChunkGetChunksRaises ==
    /\ ck_pc = "loop"
    /\ ck_next <= Len(ck_batch)
    /\ ck_pc' = "except"
    /\ UNCHANGED <<ck_status, ck_text_chunks, ck_stored, ck_pending, ck_batch,
                   ck_next, ck_requeues>>
    /\ UNCHANGED notChunkVars

\* _process_single_splitfile: bulk_save_objects(chunk_objects).  ok: every
\* row is inserted; otherwise it raises after k of the rows.
ChunkBulkSave(k, ok) ==
    /\ ck_pc = "loop"
    /\ ck_next <= Len(ck_batch)
    /\ k <= ck_text_chunks[ck_batch[ck_next]]
    /\ ok => k = ck_text_chunks[ck_batch[ck_next]]
    /\ ck_pending' = k
    /\ ck_pc' = IF ok THEN "saved" ELSE "except"
    /\ UNCHANGED <<ck_status, ck_text_chunks, ck_stored, ck_batch, ck_next,
                   ck_requeues>>
    /\ UNCHANGED notChunkVars

\* _update_split_file_status(chunk-success): the commit stores the inserted
\* rows and the status.
ChunkCommitSuccess ==
    /\ ck_pc = "saved"
    /\ ck_stored' = [ck_stored EXCEPT ![ck_batch[ck_next]] = @ + ck_pending]
    /\ ck_pending' = 0
    /\ ck_status' = [ck_status EXCEPT ![ck_batch[ck_next]] = "chunk-success"]
    /\ ck_next' = ck_next + 1
    /\ ck_pc' = "loop"
    /\ UNCHANGED <<ck_text_chunks, ck_batch, ck_requeues>>
    /\ UNCHANGED notChunkVars

\* The except clause: _handle_processing_failure rolls back, then commits
\* the status chunk-failed (with whatever the transaction still holds).
ChunkHandleFailure ==
    /\ ck_pc = "except"
    /\ ck_stored' =
          [ck_stored EXCEPT ![ck_batch[ck_next]] = @ + Rollback(ck_pending)]
    /\ ck_pending' = 0
    /\ ck_status' = [ck_status EXCEPT ![ck_batch[ck_next]] = "chunk-failed"]
    /\ ck_next' = ck_next + 1
    /\ ck_pc' = "loop"
    /\ UNCHANGED <<ck_text_chunks, ck_batch, ck_requeues>>
    /\ UNCHANGED notChunkVars

\* generate: the for loop is through.
ChunkReturn ==
    /\ ck_pc = "loop"
    /\ ck_next > Len(ck_batch)
    /\ ck_pc' = "returned"
    /\ UNCHANGED <<ck_status, ck_text_chunks, ck_stored, ck_pending, ck_batch,
                   ck_next, ck_requeues>>
    /\ UNCHANGED notChunkVars

\* An operator puts a chunk-failed unit back to bundle-success, and generate
\* is called again.
ChunkRequeue(u) ==
    /\ ck_pc = "returned"
    /\ ck_status[u] = "chunk-failed"
    /\ ck_requeues < MaxRequeues
    /\ ck_status' = [ck_status EXCEPT ![u] = "bundle-success"]
    /\ ck_requeues' = ck_requeues + 1
    /\ ck_pc' = "call"
    /\ UNCHANGED <<ck_text_chunks, ck_stored, ck_pending, ck_batch, ck_next>>
    /\ UNCHANGED notChunkVars

ChunkNext ==
    \/ ChunkGenerate
    \/ ChunkGetChunksRaises
    \/ \E k \in 0..MaxUnitChunks, ok \in BOOLEAN : ChunkBulkSave(k, ok)
    \/ ChunkCommitSuccess
    \/ ChunkHandleFailure
    \/ ChunkReturn
    \/ \E u \in ChunkUnits : ChunkRequeue(u)

\* The units as the bundler left them, none chunked yet.
ChunkInitial ==
    /\ ck_status \in [ChunkUnits -> {"bundle-success", "bundle-failed"}]
    /\ ck_text_chunks \in [ChunkUnits -> 0..MaxUnitChunks]
    /\ ck_stored = [u \in ChunkUnits |-> 0]
    /\ ck_pending = 0
    /\ ck_batch = <<>>
    /\ ck_next = 1
    /\ ck_requeues = 0
    /\ ck_pc = "call"

ChunkIdle ==
    /\ ck_status = [u \in ChunkUnits |-> "bundle-failed"]
    /\ ck_text_chunks = [u \in ChunkUnits |-> 0]
    /\ ck_stored = [u \in ChunkUnits |-> 0]
    /\ ck_pending = 0
    /\ ck_batch = <<>>
    /\ ck_next = 1
    /\ ck_requeues = 0
    /\ ck_pc = "idle"

\* ------------------------------------------------------------------------
\* Specifications
\* ------------------------------------------------------------------------
ListenInitial ==
    /\ check_period \in 1..MaxCheckPeriod
    /\ max_wait_time \in 0..MaxWaitTime
    /\ \E n \in 0..MaxJobs :
          /\ pollers = [i \in 1..n |-> PollerDict(i, 0)]
          /\ sf_status = [u \in JobUnits |->
                            IF u <= n THEN "di-processing" ELSE "wait-for-di"]
          /\ di_request = [u \in JobUnits |->
                            [status |-> IF u <= n THEN "submitted" ELSE "none",
                             finish_at |-> FALSE]]
    /\ sweep = <<>>
    /\ listen_pc = "while"
    /\ job_state = [u \in JobUnits |-> "running"]
    /\ pkl = [u \in JobUnits |-> "absent"]
    /\ n_polls = [u \in JobUnits |-> 0]
    /\ n_updates = [u \in JobUnits |-> 0]

ListenIdle ==
    /\ check_period = 1
    /\ max_wait_time = 0
    /\ pollers = <<>>
    /\ sf_status = [u \in JobUnits |-> "wait-for-di"]
    /\ di_request = [u \in JobUnits |-> [status |-> "none", finish_at |-> FALSE]]
    /\ sweep = <<>>
    /\ listen_pc = "idle"
    /\ job_state = [u \in JobUnits |-> "running"]
    /\ pkl = [u \in JobUnits |-> "absent"]
    /\ n_polls = [u \in JobUnits |-> 0]
    /\ n_updates = [u \in JobUnits |-> 0]

InitSplit ==
    SplitInit /\ SubmitIdle /\ ListenIdle /\ ExtractIdle
    /\ BundleIdle /\ FileIdle /\ FigureIdle /\ ApiIdle /\ RepeatIdle
    /\ RunIdle /\ IndexIdle /\ ChunkIdle

InitSubmit ==
    SplitIdle /\ SubmitInit /\ ListenIdle /\ ExtractIdle
    /\ BundleIdle /\ FileIdle /\ FigureIdle /\ ApiIdle /\ RepeatIdle
    /\ RunIdle /\ IndexIdle /\ ChunkIdle

InitListen ==
    SplitIdle /\ SubmitIdle /\ ListenInitial /\ ExtractIdle
    /\ BundleIdle /\ FileIdle /\ FigureIdle /\ ApiIdle /\ RepeatIdle
    /\ RunIdle /\ IndexIdle /\ ChunkIdle

InitExtract ==
    SubmitIdle /\ ListenIdle /\ ExtractInitial /\ BundleIdle
    /\ FileIdle /\ FigureIdle /\ ApiIdle /\ RepeatIdle /\ RunIdle /\ IndexIdle
    /\ ChunkIdle

InitBundle ==
    SplitIdle /\ SubmitIdle /\ ListenIdle /\ ExtractIdle /\ BundleInitial
    /\ FileIdle /\ FigureIdle /\ ApiIdle /\ RepeatIdle /\ RunIdle /\ IndexIdle
    /\ ChunkIdle

InitFile ==
    SubmitIdle /\ ListenIdle /\ ExtractIdle /\ BundleIdle /\ FileInitial
    /\ FigureIdle /\ ApiIdle /\ RepeatIdle /\ RunIdle /\ IndexIdle
    /\ ChunkIdle

InitFigure ==
    SplitIdle /\ SubmitIdle /\ ListenIdle /\ ExtractIdle /\ BundleIdle
    /\ FileIdle /\ FigureInitial /\ ApiIdle /\ RepeatIdle /\ RunIdle
    /\ IndexIdle /\ ChunkIdle

InitApi ==
    SplitIdle /\ SubmitIdle /\ ListenIdle /\ ExtractIdle /\ BundleIdle
    /\ FileIdle /\ FigureIdle /\ ApiInitial /\ RepeatIdle /\ RunIdle
    /\ IndexIdle /\ ChunkIdle

InitRepeat ==
    SplitIdle /\ SubmitIdle /\ ListenIdle /\ ExtractIdle /\ BundleIdle
    /\ FileIdle /\ FigureIdle /\ ApiIdle /\ RepeatInitial /\ RunIdle
    /\ IndexIdle /\ ChunkIdle

InitRun ==
    SplitIdle /\ SubmitIdle /\ ListenIdle /\ ExtractIdle /\ BundleIdle
    /\ FileIdle /\ FigureIdle /\ ApiIdle /\ RepeatIdle /\ RunInitial
    /\ IndexIdle /\ ChunkIdle

InitIndex ==
    SplitIdle /\ SubmitIdle /\ ListenIdle /\ ExtractIdle /\ BundleIdle
    /\ FileIdle /\ FigureIdle /\ ApiIdle /\ RepeatIdle /\ RunIdle
    /\ IndexInitial /\ ChunkIdle

InitChunk ==
    SplitIdle /\ SubmitIdle /\ ListenIdle /\ ExtractIdle /\ BundleIdle
    /\ FileIdle /\ FigureIdle /\ ApiIdle /\ RepeatIdle /\ RunIdle
    /\ IndexIdle /\ ChunkInitial

SpecSplit == InitSplit /\ [][SplitNext]_vars

SpecSubmit == InitSubmit /\ [][SubmitNext]_vars

SpecListen == InitListen /\ [][ListenNext]_vars

SpecExtract == InitExtract /\ [][ExtractNext]_vars

SpecBundle == InitBundle /\ [][BundleNext]_vars

SpecFile == InitFile /\ [][FileNext]_vars

SpecFigure == InitFigure /\ [][FigureNext]_vars

SpecApi == InitApi /\ [][ApiNext]_vars

SpecRepeat == InitRepeat /\ [][RepeatNext]_vars

SpecRun == InitRun /\ [][RunNext]_vars

SpecIndex == InitIndex /\ [][IndexNext]_vars

SpecChunk == InitChunk /\ [][ChunkNext]_vars

\* The listener is a sequential loop that runs until it returns: each of its
\* steps is taken once it is enabled.  Nothing is assumed of the service.
SpecListenFair == SpecListen /\ WF_vars(ListenerStep)

\* ------------------------------------------------------------------------
\* C1
\* ------------------------------------------------------------------------

\* C1: for every page count p >= 0 and budget b > 0, get_split_pdfs returns
\* exactly ceil(p/b) units with split ids 0..ceil(p/b)-1 in order; unit 0
\* starts at page 1, each next unit starts at the previous end + 1, the last
\* unit ends at page p, and the page counts sum to p.
RECURSIVE SumPages(_)
SumPages(s) ==
    IF s = <<>> THEN 0 ELSE Head(s).n_pages_in_target + SumPages(Tail(s))

C1_SplitCoversDocument ==
    (split_pc # "call" /\ n_pages_per_split > 0) =>
        /\ split_pc = "returned"
        /\ Len(split_pdfs) = CeilDiv(file_n_pages, n_pages_per_split)
        /\ \A i \in 1..Len(split_pdfs) :
              /\ split_pdfs[i].split_id = i - 1
              /\ split_pdfs[i].start_page_id =
                    IF i = 1 THEN 1 ELSE split_pdfs[i - 1].end_page_id + 1
              /\ split_pdfs[i].n_pages_in_target =
                    split_pdfs[i].end_page_id - split_pdfs[i].start_page_id + 1
        /\ (split_pdfs # <<>> =>
              split_pdfs[Len(split_pdfs)].end_page_id = file_n_pages)
        /\ SumPages(split_pdfs) = file_n_pages

\* ------------------------------------------------------------------------
\* C2, C3, C4, C5
\* ------------------------------------------------------------------------
TimedOut(u) == di_request[u].status = "over-max-wait-time"

\* C2: a job whose accumulated waiting time (check_period for every poll
\* that found it not done) exceeds max_wait_time is removed from the registry
\* and its unit is marked di-failed / over-max-wait-time in that same poll,
\* by the only status update the unit ever gets; from then on the job is
\* never polled again, is not in the registry, and the unit's status and
\* reason never change, whatever the remote job does afterwards.
C2_TimeoutExactlyOnce ==
    [][\A u \in JobUnits :
        /\ (/\ n_polls'[u] = n_polls[u] + 1
            /\ job_state[u] = "running"
            /\ check_period * n_polls'[u] > max_wait_time)
           => (/\ ~InRegistry(pollers', u)
               /\ sf_status'[u] = "di-failed"
               /\ di_request'[u].status = "over-max-wait-time"
               /\ n_updates'[u] = 1)
        /\ TimedOut(u)
           => (/\ n_polls'[u] = n_polls[u]
               /\ n_updates'[u] = n_updates[u]
               /\ sf_status'[u] = sf_status[u]
               /\ di_request'[u] = di_request[u]
               /\ ~InRegistry(pollers', u))
      ]_vars

\* A unit was timed out, a job behind it in the same sweep was polled and
\* found done after that, the timed-out unit's remote job completed
\* afterwards, and listen_jobs returned.
C2_Witness ==
    \E u, v \in JobUnits :
        /\ TimedOut(u)
        /\ sf_status[u] = "di-failed"
        /\ job_state[u] = "succeeded"
        /\ u < v
        /\ n_polls[v] = n_polls[u]
        /\ sf_status[v] = "di-success"
        /\ listen_pc = "returned"

\* C3: listen_jobs returns only with an empty registry; a job is polled at
\* most floor(max_wait_time / check_period) + 1 times (it is done at one of
\* these polls or timed out at the last), whatever the remote jobs do; and
\* listen_jobs does return.
C3_ListenTerminates ==
    /\ [](listen_pc = "returned" => pollers = <<>>)
    /\ [](\A u \in JobUnits :
            n_polls[u] <= (max_wait_time \div check_period) + 1)
    /\ <>(listen_pc = "returned")

\* listen_jobs returned although a job never completed: it was timed out at
\* poll number floor(max_wait_time / check_period) + 1, after several sweeps.
C3_Witness ==
    /\ listen_pc = "returned"
    /\ \E u \in JobUnits :
          /\ job_state[u] = "running"
          /\ TimedOut(u)
          /\ n_polls[u] = (max_wait_time \div check_period) + 1
          /\ n_polls[u] >= 3

\* C4: when a polled job is done, a succeeded job has its raw result
\* persisted and its unit marked di-success; any other terminal status marks
\* the unit di-failed and persists nothing; either way the job leaves the
\* registry in that poll.
C4_CompletedPollHandled ==
    [][\A u \in JobUnits :
        (n_polls'[u] = n_polls[u] + 1 /\ job_state[u] # "running")
        => /\ ~InRegistry(pollers', u)
           /\ IF job_state[u] = "succeeded"
              THEN pkl'[u] = "complete" /\ sf_status'[u] = "di-success"
              ELSE pkl'[u] = pkl[u] /\ sf_status'[u] = "di-failed"
      ]_vars

\* C5: a unit in di-success has a persisted raw result: a failed save leaves
\* the unit in di-processing.
C5_SuccessHasResult ==
    \A u \in JobUnits : sf_status[u] = "di-success" => pkl[u] = "complete"

\* ------------------------------------------------------------------------
\* C6, C7
\* ------------------------------------------------------------------------
\* C6: an error raised while submitting or polling one unit is caught for
\* that unit only: every other unit of the batch is still submitted, and
\* submit_jobs does not abort with an exception.
C6_SubmitErrorsIsolated ==
    /\ submit_pc \in {"idle", "loop", "returned"}
    /\ (submit_pc = "returned" => submit_idx = Len(split_files) + 1)

\* C7: for each unit of the submit batch: a unit whose source file is
\* missing is marked failed and is not registered; any other unit has exactly
\* one registered job with waiting_time = 0 and is marked di-processing; and
\* when the submit phase has ended, a unit is in the registry if and only if
\* its status is di-processing.
C7_SubmitRegistersEachUnit ==
    (submit_pc \notin {"idle", "loop"}) =>
        \A i \in 1..Len(split_files) :
            LET u == split_files[i]
                jobs == {k \in 1..Len(submit_pollers) : submit_pollers[k].unit = u}
            IN  /\ (~file_exists[u] =>
                      submit_status[u] = "failed" /\ jobs = {})
                /\ (file_exists[u] =>
                      /\ Cardinality(jobs) = 1
                      /\ \A k \in jobs : submit_pollers[k].waiting_time = 0
                      /\ submit_status[u] = "di-processing")
                /\ (InRegistry(submit_pollers, u)
                      <=> submit_status[u] = "di-processing")

\* ------------------------------------------------------------------------
\* C8, C9, C10: the extractor
\* ------------------------------------------------------------------------
ExtractUnits == 1..Len(db_split_files)

\* The rows of a table that belong to unit u
RowsOf(rows, u) == {i \in 1..Len(rows) : rows[i].split_file_id = u}

\* The raw result of unit u is there and splits into a number of segments
\* other than the unit's page count.
Mismatch(u) ==
    /\ analysis[u].pkl
    /\ analysis[u].n_segments # db_split_files[u].n_pages

C9_OnePagePerPageNumber ==
    /\ \A i \in 1..Len(db_pages) :
          /\ db_pages[i].page_number =
                db_split_files[db_pages[i].split_file_id].start_page_number
                   + db_pages[i].page_id_in_split_file - 1
          /\ db_pages[i].page_number \in 1..file_n_pages
    /\ \A i, j \in 1..Len(db_pages) :
          db_pages[i].page_number = db_pages[j].page_number
             => db_pages[i].split_file_id = db_pages[j].split_file_id
    /\ (\A u \in ExtractUnits :
           db_split_files[u].status = "page-split-success")
          => \A n \in 1..file_n_pages :
                \E i \in 1..Len(db_pages) : db_pages[i].page_number = n
    /\ (\A u \in ExtractUnits : n_extractions[u] <= 1)
          => \A i, j \in 1..Len(db_pages) :
                db_pages[i].page_number = db_pages[j].page_number => i = j

\* A document of three pages in units of two pages and of one page, both
\* extracted once with success: three Pages, numbered 1, 2, 3.
C9_Witness ==
    /\ file_n_pages = 3
    /\ n_pages_per_split = 2
    /\ \A u \in ExtractUnits :
          /\ db_split_files[u].status = "page-split-success"
          /\ n_extractions[u] = 1
    /\ Len(db_pages) = 3
    /\ db_pages[3].split_file_id = 2
    /\ db_pages[3].page_id_in_split_file = 1
    /\ db_pages[3].page_number = 3

\* C10: a unit that was extracted again with the same raw result has no two
\* Page rows of one page number and no two Table or Figure rows of one
\* (page_number, sub_index); and when the second extraction succeeds its
\* rows are those of one successful run.
C10_RerunIdempotent ==
    \A u \in ExtractUnits :
       n_extractions[u] >= 2 =>
          /\ \A i, j \in RowsOf(db_pages, u) :
                db_pages[i].page_number = db_pages[j].page_number => i = j
          /\ \A i, j \in RowsOf(db_tables, u) :
                SubKey(db_tables[i]) = SubKey(db_tables[j]) => i = j
          /\ \A i, j \in RowsOf(db_figures, u) :
                SubKey(db_figures[i]) = SubKey(db_figures[j]) => i = j
          /\ db_split_files[u].status = "page-split-success" =>
                Cardinality(RowsOf(db_pages, u)) = db_split_files[u].n_pages

\* ------------------------------------------------------------------------
\* C11, C12: the bundler
\* ------------------------------------------------------------------------

\* The pages of a set in ascending numeric order
RECURSIVE AscendingPages(_)
AscendingPages(pages) ==
    IF pages = {} THEN <<>>
    ELSE LET least == CHOOSE p \in pages : \A q \in pages : p <= q
         IN  <<least>> \o AscendingPages(pages \ {least})

\* C11: the body merge_bundle returns lists the pages in ascending page
\* number: of any two pages in it, the one with the smaller number comes
\* first (page 2 before page 10).
C11_BundleAscending ==
    merge_pc = "returned" =>
       \A i, j \in 1..Len(merged_content) :
          i < j => merged_content[i] < merged_content[j]

\* The document has a page-number gap: a page is absent between two present.
HasGap(pages) ==
    \E a, b \in pages : \E m \in (a + 1)..(b - 1) : m \notin pages

\* C12: for a document whose pages have a gap, merge_bundle does not raise
\* for want of files and returns exactly the existing pages in ascending
\* order; the chunker's full text of a unit is made of exactly the unit's
\* pages that have a bundle file, in ascending order.
C12_GapDoesNotFail ==
    HasGap(bundle_md_files) =>
       /\ merge_pc # "FileNotFoundError"
       /\ merge_pc = "returned" =>
             merged_content = AscendingPages(bundle_md_files)
       /\ chunk_pc = "returned" =>
             /\ \A i, j \in 1..Len(full_text) :
                   i < j => full_text[i] < full_text[j]
             /\ \A i \in 1..Len(full_text) : full_text[i] \in bundle_md_files

\* ------------------------------------------------------------------------
\* C13: the poll phase commits per unit
\* ------------------------------------------------------------------------

\* C13: once a unit is marked di-success (its request marked success), no
\* later step - a sibling's failure or timeout included - changes the
\* unit's status or request; and when listen_jobs has returned, every
\* registered unit whose job was found succeeded is in di-success, whatever
\* became of its siblings.
C13_SuccessIsDurable ==
    /\ [][\A u \in JobUnits :
            sf_status[u] = "di-success" =>
               /\ sf_status'[u] = "di-success"
               /\ di_request'[u] = di_request[u]]_vars
    /\ [](listen_pc = "returned" =>
            \A u \in JobUnits :
               (/\ di_request[u].status \notin {"none", "over-max-wait-time"}
                /\ job_state[u] = "succeeded")
                  => /\ sf_status[u] = "di-success"
                     /\ di_request[u].status = "success")

\* Three units: unit 1 is marked di-success in one sweep, unit 2's job ends
\* failed and is marked di-failed in a later sweep, unit 3 is marked
\* di-success after that; units 1 and 3 are in di-success at the return.
C13_Witness ==
    /\ listen_pc = "returned"
    /\ sf_status[1] = "di-success"
    /\ sf_status[2] = "di-failed"
    /\ di_request[2].status = "failed"
    /\ sf_status[3] = "di-success"
    /\ n_polls[1] < n_polls[2]
    /\ n_polls[2] < n_polls[3]

\* ------------------------------------------------------------------------
\* C14 - C18: the File's status and the units of the FileSplitter
\* ------------------------------------------------------------------------
FailedStatuses == {"failed", "upload-failed", "delete-failed"}

\* The position of a status that is not a failed one in the File's life.
StatusRank(status) ==
    CASE status = "wait-for-process" -> 0
      [] status = "processing" -> 1
      [] status = "uploaded" -> 2
      [] status = "wait-for-delete" -> 3
      [] status = "deleted" -> 4
      [] OTHER -> 0 - 1

\* C14: no step of a split, scan, upload or delete pass moves the File out
\* of a failed status, nor from a status to an earlier one.
C14_StatusForwardOnly ==
    [][/\ f_status \in FailedStatuses => f_status' = f_status
       /\ (f_status \notin FailedStatuses /\ f_status' \notin FailedStatuses)
             => StatusRank(f_status') >= StatusRank(f_status)]_vars

\* C15: once the splitting of a File is over, a File of which a unit failed
\* to extract is in status failed, as long as its source is in place.
C15_FailedUnitFailsFile ==
    (fs_pc # "loop" /\ fs_failed_units # {} /\ in_done_dir)
       => f_status = "failed"

\* The SplitFile rows recorded for split_id.
RowsOfSplit(split_id) ==
    {k \in 1..Len(file_split_files) : file_split_files[k].split_id = split_id}

\* C16: when the splitting of a File is over, each unit whose extraction
\* failed has a row marked failed and none that waits for analysis, and each
\* other unit has its row waiting for analysis.
C16_FailedUnitMarked ==
    (fs_pc # "loop" /\ f_status = "processing")
       => \A k \in 1..Len(fs_split_pdfs) :
             LET split_id == fs_split_pdfs[k].split_id
             IN  IF split_id \in fs_failed_units
                 THEN /\ \E r \in RowsOfSplit(split_id) :
                            file_split_files[r].status = "failed"
                      /\ \A r \in RowsOfSplit(split_id) :
                            file_split_files[r].status # "wait-for-di"
                 ELSE \E r \in RowsOfSplit(split_id) :
                         file_split_files[r].status = "wait-for-di"

C18_ConfigErrorRaised ==
    /\ (file_n_pages = 0 /\ n_pages_per_split > 0 /\ f_status = "processing")
          => /\ fs_split_pdfs = <<>>
             /\ file_split_files = <<>>
             /\ fs_failed_units = {}
             /\ fs_logged = "none"
    /\ fs_logged = "ValueError"
          => /\ fs_pc \notin {"fetch", "loop"}
             /\ f_status = "wait-for-process"
             /\ file_split_files = <<>>

\* ------------------------------------------------------------------------
\* C19: a unit that fails after its Page rows were committed
\* ------------------------------------------------------------------------
RowsKept(rows, rows2) ==
    /\ Len(rows) <= Len(rows2)
    /\ \A i \in 1..Len(rows) : rows2[i] = rows[i]

\* The Page rows unit u has from its extraction number ext.
PageRowsOfRun(rows, u, ext) ==
    {i \in RowsOf(rows, u) : rows[i].extraction = ext}

C20_FailedFigureStaysNull ==
    \A f \in fig_failed :
       /\ fig_description[f] = "None"
       /\ fig_pc = "loop" /\ n_fig_passes > 1 /\ fig_path_bound = FALSE
             => \E i \in 1..Len(fig_queue) : fig_queue[i] = f

\* ------------------------------------------------------------------------
\* C21, C26: the /ai_service endpoint
\* ------------------------------------------------------------------------

\* The bundle handed to handle_action has no content: it is missing, empty
\* or made of whitespace only.
NoContent(merged_bundle) ==
    \/ merged_bundle.kind # "str"
    \/ \A i \in 1..Len(merged_bundle.text) :
          merged_bundle.text[i] \in Whitespace

C26_InvalidFileRejected ==
    (api_ext \notin allowed_extensions /\ api_pc # "call")
       => /\ api_pc = "responded"
          /\ api_response.status = "error"
          /\ api_response.error_message
                = "Invalid file format. Only .pdf and .docx are supported."
          /\ ~api_pipeline_ran
          /\ ~api_db_touched

\* ------------------------------------------------------------------------
\* C22, C23: the order of the files and of the Page rows
\* ------------------------------------------------------------------------

\* C22: any two calls of merge_bundle on the same bundle files return the
\* same text, in whatever order the directory listed the files.
C22_BundleDeterministic ==
    \A i, j \in 1..Len(rep_merged) : rep_merged[i] = rep_merged[j]

\* Three files or more, merged twice.
C22_Witness ==
    /\ Cardinality(rep_files) >= 3
    /\ Len(rep_merged) = MaxCalls

\* C23: the full text of a unit is made of its pages that have a bundle
\* file, in ascending page number, and is the same in every call, in
\* whatever order the Page rows were loaded.
C23_FullTextAscending ==
    \A i \in 1..Len(rep_texts) :
       /\ rep_texts[i] = AscendingPages(rep_pages \cap rep_files)
       /\ \A j \in 1..Len(rep_texts) : rep_texts[i] = rep_texts[j]

\* A unit of three pages or more, each with its bundle file, read twice.
C23_Witness ==
    /\ Cardinality(rep_pages) >= 3
    /\ rep_files = rep_pages
    /\ Len(rep_texts) = MaxCalls

\* ------------------------------------------------------------------------
\* C27, C28, C29: the sweeps of listen_jobs
\* ------------------------------------------------------------------------

\* The unit was handed to listen_jobs in the registry.
Registered(u) == di_request[u].status # "none"

\* Whether unit u is in the list of units s.
InUnits(s, u) == \E i \in 1..Len(s) : s[i] = u

\* C27: a job in the registry has waiting_time = check_period times the
\* number of polls that found it not done, and waiting_time <= max_wait_time;
\* a poll that finds the job not done times it out exactly when the grown
\* waiting_time is strictly greater than max_wait_time: at equality the job
\* stays in the registry and its unit stays di-processing.
C27_WaitingTimeAccumulates ==
    /\ [](\A i \in 1..Len(pollers) :
            /\ pollers[i].waiting_time = check_period * n_polls[pollers[i].unit]
            /\ pollers[i].waiting_time <= max_wait_time)
    /\ [][\A u \in JobUnits :
            (n_polls'[u] = n_polls[u] + 1 /\ job_state[u] = "running")
               => /\ TimedOut(u)' <=> check_period * n_polls'[u] > max_wait_time
                  /\ check_period * n_polls[u] <= max_wait_time
                  /\ check_period * n_polls'[u] <= max_wait_time
                       => /\ InRegistry(pollers', u)
                          /\ sf_status'[u] = "di-processing"
                          /\ di_request'[u] = di_request[u]
         ]_vars

\* A job polled twice and found not done both times waits in the registry
\* with waiting_time equal to max_wait_time, its unit still di-processing,
\* while the listener sleeps before the next sweep.
C27_Witness ==
    /\ listen_pc = "sleep"
    /\ \E i \in 1..Len(pollers) :
          /\ pollers[i].waiting_time = max_wait_time
          /\ n_polls[pollers[i].unit] = 2
          /\ sf_status[pollers[i].unit] = "di-processing"

\* The number of polls a job of the registry has had when k sweeps were
\* completed before the current one.
PollsInSweep(u, k) ==
    IF listen_pc = "for" /\ ~InUnits(sweep, u) THEN k + 1 ELSE k

\* C28: a sweep starts with every job of the registry in its snapshot, once;
\* each poll takes the head of what is left of the snapshot, a job that is
\* in the registry, and polls it once; so every job of the registry has been
\* polled in every sweep since the call (once in the current sweep when the
\* sweep has passed it, not yet when it has not), whatever was removed in
\* between, and a job that left the registry is never polled again.
C28_SweepPollsEachOnce ==
    /\ [](\E k \in 0..(max_wait_time + 1) : \A u \in JobUnits :
            IF ~Registered(u) THEN n_polls[u] = 0
            ELSE IF InRegistry(pollers, u) THEN n_polls[u] = PollsInSweep(u, k)
            ELSE /\ ~InUnits(sweep, u)
                 /\ n_polls[u] \in 1..PollsInSweep(u, k))
    /\ [](\A i, j \in 1..Len(sweep) : i # j => sweep[i] # sweep[j])
    /\ [][(listen_pc = "while" /\ listen_pc' = "for")
            => \A u \in JobUnits : InRegistry(pollers, u) <=> InUnits(sweep', u)
         ]_vars
    /\ [][\A u \in JobUnits :
            n_polls'[u] # n_polls[u]
               => /\ n_polls'[u] = n_polls[u] + 1
                  /\ InRegistry(pollers, u)
                  /\ listen_pc = "for"
                  /\ u = Head(sweep)
                  /\ sweep' = Tail(sweep)
         ]_vars

\* The end of the second sweep over three jobs: the first job of the
\* snapshot was found done and removed in this sweep, and the two jobs behind
\* it were polled in this sweep all the same.
C28_Witness ==
    /\ listen_pc = "for"
    /\ sweep = <<>>
    /\ ~InRegistry(pollers, 1)
    /\ InRegistry(pollers, 2)
    /\ InRegistry(pollers, 3)
    /\ n_polls[1] = 2
    /\ n_polls[2] = 2
    /\ n_polls[3] = 2

FinalDiStatuses == {"success", "failed", "over-max-wait-time"}

\* C29: when listen_jobs has returned, the registry is empty and every unit
\* that was in it is in di-success or di-failed, never di-processing; its
\* request has a final status (success with di-success, failed or
\* over-max-wait-time with di-failed) and a finish time.
C29_ReturnLeavesNoneProcessing ==
    listen_pc = "returned" =>
        /\ pollers = <<>>
        /\ \A u \in JobUnits :
              Registered(u) =>
                 /\ sf_status[u] \in {"di-success", "di-failed"}
                 /\ di_request[u].status \in FinalDiStatuses
                 /\ sf_status[u] = "di-success" <=> di_request[u].status = "success"
                 /\ di_request[u].finish_at

\* listen_jobs returned from three jobs: one succeeded, one failed, one was
\* timed out and is still running.
C29_Witness ==
    /\ listen_pc = "returned"
    /\ \E u, v, w \in JobUnits :
          /\ di_request[u].status = "success"
          /\ di_request[v].status = "failed"
          /\ di_request[w].status = "over-max-wait-time"
          /\ job_state[w] = "running"

\* ------------------------------------------------------------------------
\* C25: what is gone when a File is deleted
\* ------------------------------------------------------------------------

\* C25: a File in status deleted has every Chunk of its units in status
\* deleted, no SplitFile row left and no folder of artifacts left; a deletion
\* pass that leaves any of the three behind sets the File to delete-failed.
C25_DeletedOnlyWhenAllRemoved ==
    /\ [](f_status = "deleted" =>
            /\ f_chunks \in {"none", "deleted"}
            /\ file_split_files = <<>>
            /\ ~f_folder)
    /\ [][(f_status = "wait-for-delete"
            /\ f_status' \in {"deleted", "delete-failed"}) =>
            IF /\ f_chunks' \in {"none", "deleted"}
               /\ file_split_files' = <<>>
               /\ ~f_folder'
            THEN f_status' = "deleted"
            ELSE f_status' = "delete-failed"]_vars

\* ------------------------------------------------------------------------
\* C30: the end of DIProcessor.run
\* ------------------------------------------------------------------------

\* C30: run ends by leaving its loop, and when it has ended no unit is left
\* in wait-for-di: each one was moved to failed or di-processing in the
\* iteration that fetched it.
C30_RunLeavesNoPendingUnit ==
    /\ run_pc # "NameError"
    /\ run_pc = "returned" =>
          \A u \in RunUnits : run_status[u] # "wait-for-di"

\* ------------------------------------------------------------------------
\* C24: no retry inside the poller
\* ------------------------------------------------------------------------

C31_FetchedFileLeavesWaitForProcess ==
    [][(fs_pc \in {"fetch", "loop"} /\ fs_pc' = "fetch")
          => f_status' # "wait-for-process"]_vars

\* ------------------------------------------------------------------------
\* C32, C33, C34: the batches of an upload and of a delete
\* ------------------------------------------------------------------------

\* Whether chunk c is in batch b.
InBatch(b, c) == \E i \in 1..Len(ix_batches[b]) : ix_batches[b][i] = c

\* C32: after an upload pass a File marked uploaded has every chunk that
\* was fetched for upload marked uploaded; when a batch ran out of attempts
\* the File is marked upload-failed.
C32_UploadedFileHasUploadedChunks ==
    (ix_mode = "upload" /\ ix_pc = "returned") =>
        /\ ix_file_status = "uploaded" =>
              \A i \in 1..Len(ix_items) :
                 ix_chunk_status[ix_items[i]] = "uploaded"
        /\ (\E b \in 1..Len(ix_batches) :
               ix_posts[b] = ix_retry_attempts /\ ~ix_posted_ok[b])
              => ix_file_status = "upload-failed"

\* C33: the payload of a batch is posted at most retry_attempts times and
\* never after a post of it succeeded; the chunks of a batch have the done
\* status (uploaded, deleted) exactly when a post of the batch succeeded, and
\* their pending status otherwise, also when every attempt failed.
C33_BoundedRetries ==
    /\ \A b \in IndexChunks :
          /\ ix_posts[b] <= ix_retry_attempts
          /\ ix_late_posts[b] = 0
    /\ \A b \in 1..Len(ix_batches) : \A c \in IndexChunks :
          InBatch(b, c) =>
             ix_chunk_status[c] = IF ix_posted_ok[b] THEN DoneStatus(ix_mode)
                                  ELSE PendingStatus(ix_mode)

\* A delete pass over two batches, retry_attempts = 2: the first batch
\* failed twice and its chunks are still wait-for-delete, the second
\* succeeded at its second post.
C33_Witness ==
    /\ ix_mode = "delete"
    /\ ix_pc = "returned"
    /\ Len(ix_batches) = 2
    /\ ix_retry_attempts = 2
    /\ ix_posts[1] = 2
    /\ ~ix_posted_ok[1]
    /\ ix_posts[2] = 2
    /\ ix_posted_ok[2]
    /\ \A c \in IndexChunks : InBatch(1, c) => ix_chunk_status[c] = "wait-for-delete"

\* C34: batch_items partitions the list: every item is in exactly one place
\* of exactly one batch, every batch has 1..batch_size items, and there are
\* total_batches = ceil(n / batch_size) batches, none for an empty list.
C34_BatchItemsPartitions ==
    ix_pc # "call" =>
        /\ \A i \in 1..Len(ix_items) :
              Cardinality({<<b, j>> \in (1..Len(ix_batches)) \X (1..MaxBatchSize) :
                              /\ j <= Len(ix_batches[b])
                              /\ ix_batches[b][j] = ix_items[i]}) = 1
        /\ \A b \in 1..Len(ix_batches) :
              /\ Len(ix_batches[b]) \in 1..ix_batch_size
              /\ \A j \in 1..Len(ix_batches[b]) :
                    \E i \in 1..Len(ix_items) : ix_batches[b][j] = ix_items[i]
        /\ Len(ix_batches) = TotalBatches(Len(ix_items), ix_batch_size)
        /\ ix_items = <<>> => ix_batches = <<>>

\* Four items in batches of three: a full batch and a batch of one.
C34_Witness ==
    /\ ix_pc # "call"
    /\ Len(ix_items) = 4
    /\ ix_batch_size = 3
    /\ Len(ix_batches) = 2
    /\ Len(ix_batches[1]) = 3
    /\ Len(ix_batches[2]) = 1

\* ------------------------------------------------------------------------
\* C35: a unit is chunked whole or not at all
\* ------------------------------------------------------------------------

\* C35: when generate has returned no unit is in bundle-success; a unit in
\* chunk-success has exactly the chunks of its text stored, a unit in
\* chunk-failed has none, and no unit ever has more rows than its text has
\* chunks, also after a failed unit was re-queued and chunked again.
C35_UnitChunkedAtomically ==
    /\ ck_pc = "returned" =>
          \A u \in ChunkUnits : ck_status[u] # "bundle-success"
    /\ \A u \in ChunkUnits :
          /\ ck_status[u] = "chunk-success" => ck_stored[u] = ck_text_chunks[u]
          /\ ck_status[u] = "chunk-failed" => ck_stored[u] = 0
          /\ ck_stored[u] <= ck_text_chunks[u]

\* A unit failed, was re-queued and chunked again: it is in chunk-success
\* with the chunks of its text, two or more, once; another unit is in
\* chunk-failed with none.
C35_Witness ==
    /\ ck_pc = "returned"
    /\ ck_requeues = 1
    /\ \E u, v \in ChunkUnits :
          /\ ck_status[u] = "chunk-success"
          /\ ck_text_chunks[u] >= 2
          /\ ck_stored[u] = ck_text_chunks[u]
          /\ ck_status[v] = "chunk-failed"
          /\ ck_text_chunks[v] >= 1

\* ------------------------------------------------------------------------
\* C36: the status of the chunks moves forward
\* ------------------------------------------------------------------------

\* How far the File's chunks are in their life.
ChunkRank(status) ==
    CASE status = "none" -> 0
      [] status = "wait-for-upload" -> 1
      [] status = "uploaded" -> 2
      [] status = "wait-for-delete" -> 3
      [] status = "some-deleted" -> 4
      [] status = "deleted" -> 5

\* C36: no pass moves the chunks of a File backwards; in particular chunks
\* that are deleted are never set to wait-for-delete again, also when the
\* File went delete-failed and was marked wait-for-delete once more.
C36_ChunkStatusForwardOnly ==
    [][ChunkRank(f_chunks') >= ChunkRank(f_chunks)]_vars

\* The Table rows attached to the Page row with the given id.
TablesOfPage(page_id) ==
    {i \in 1..Len(db_tables) : db_tables[i].page_id = page_id}

\* A Table or Figure row is attached to a Page row of its unit that has its
\* page number.
AttachedToItsPage(r) ==
    /\ r.page_id \in 1..Len(db_pages)
    /\ db_pages[r.page_id].id = r.page_id
    /\ db_pages[r.page_id].split_file_id = r.split_file_id
    /\ db_pages[r.page_id].page_number = r.page_number

\* C37: every Table row and every Figure row refers to a Page row of the same
\* unit whose page_number equals the row's page_number, and the Table rows of
\* one Page row carry the indices 1..k in the order they were stored, none
\* of them twice.
C37_RowsAttachedToTheirPage ==
    /\ \A i \in 1..Len(db_tables) : AttachedToItsPage(db_tables[i])
    /\ \A i \in 1..Len(db_figures) : AttachedToItsPage(db_figures[i])
    /\ \A p \in 1..Len(db_pages) :
          /\ {db_tables[i].table_id_in_page : i \in TablesOfPage(p)}
                = 1..Cardinality(TablesOfPage(p))
          /\ \A i, j \in TablesOfPage(p) :
                i < j => db_tables[i].table_id_in_page
                            < db_tables[j].table_id_in_page

\* C37 witness: a unit that does not start the document has two Table rows
\* on one Page row and a Figure row on a later Page row, all stored.
C37_Witness ==
    \E i, j \in 1..Len(db_tables), f \in 1..Len(db_figures) :
        /\ i < j
        /\ db_tables[i].page_id = db_tables[j].page_id
        /\ db_tables[i].split_file_id = db_figures[f].split_file_id
        /\ db_figures[f].page_id > db_tables[i].page_id
        /\ db_split_files[db_tables[i].split_file_id].start_page_number > 1
        /\ AttachedToItsPage(db_figures[f])

====
